---- MODULE Spec2Model ----
(***************************************************************************)
(* Model of the SnnDL multi-core processing element: the on-tile           *)
(* virtual-channel ring (OptimizedInternalRing) and the tile               *)
(* (MultiCorePE) code that drives it.                                      *)
(*                                                                         *)
(* A ring object is a record with the fields of class                      *)
(* OptimizedInternalRing; every method is an operator that takes the ring  *)
(* and returns the ring after the call (with the return value when the     *)
(* method has one).  Statistics counters and log output are left out:      *)
(* no branch of the modelled code reads them.                              *)
(***************************************************************************)
EXTENDS Integers, Sequences, FiniteSets, TLC

\* ---- bounds of the model --------------------------------------------------
MaxNodes == 4     \* ring sizes 2..MaxNodes
MaxVCs == 2       \* virtual channels per direction 1..MaxVCs
MaxCredits == 2   \* credits per VC 1..MaxCredits
MaxLoad == 6      \* messages (spikes) in one behaviour x nodes of the ring
MaxCycles == 2    \* clock ticks in one behaviour
MaxNeurons == 3        \* num_neurons_ of the modelled core
MaxCoreSpikes == 2     \* spikes delivered to the core in one behaviour
MaxCoreCycles == 2     \* clock ticks of the core in one behaviour
MaxCacheEntries == 3   \* max_cache_entries_ ranges over 0..MaxCacheEntries
MaxOutstanding == 2    \* max_outstanding_requests_ ranges over 1..MaxOutstanding
MaxTiles == 2          \* tiles (node ids 0..MaxTiles - 1) of the weight address space
MaxCoresPerTile == 2   \* num_cores of a tile ranges over 1..MaxCoresPerTile
MaxNPC == 2            \* neurons_per_core ranges over 1..MaxNPC
MaxReads == 2          \* requestWeight calls in one behaviour of the address model
MaxPESpikes == 2       \* spikes that enter a tile in one behaviour
MaxPECycles == 3       \* clock ticks of a tile in one behaviour
MaxNetFlits == 2       \* send credits of the network behind a NIC, in flits
MaxTestPeriod == 2     \* test_period ranges over 1..MaxTestPeriod
MaxTestBurst == 2      \* test_spikes_per_burst ranges over 1..MaxTestBurst
MaxTestSpikes == 3     \* test_max_spikes ranges over 0..MaxTestSpikes
MaxNicSpikes == 4      \* spikes handed to a network interface in one behaviour
MaxMeshDim == 4        \* width and height of a mesh or torus range over 1..MaxMeshDim
MaxLegacyCycles == 3   \* clock ticks of a tile on the legacy ring in one behaviour
MaxTRef == 2           \* t_ref of the core ranges over 1..MaxTRef
MaxRefNeurons == 2     \* num_neurons_ of the core in the refractory runs
MaxRefSpikes == 3      \* spikes delivered to the core in one refractory run
MaxRefCycles == 4      \* clock ticks of the core in one refractory run
MaxSnnNeurons == 2     \* num_neurons of the standalone SnnPE
MaxSnnEvents == 3      \* events the standalone SnnPE handles in one behaviour
MaxSnnCycles == 3      \* clock ticks of the standalone SnnPE in one behaviour

\* ---- program constants ----------------------------------------------------
DefaultPriority == 1   \* RingMessage() : priority(1)
TileNumVCs == 2        \* MultiCorePE::initializeInternalRing: num_vcs

NullSpike == 0         \* payload.spike_data = nullptr; spikes are numbered from 1
MAX_HOPS == 10         \* SpikeEvent::MAX_HOPS
TestInjectCycle == 5000   \* MultiCorePE::clockTick: the cycle of the test injection
PacketFlits == 2       \* flits of one spike request; spaceToSend(vn, 1) asks for one
FloatStep == 4         \* 2^-23, the step of a float in [1.0, 2.0), in units of 2^-25
WeightOne == 33554432  \* the double 1.0 in units of 2^-25

Priorities == {0, 1}
nullptr == [nullptr |-> TRUE]   \* the null OptimizedInternalRing pointer

VARIABLES
    optimized_ring_,   \* the OptimizedInternalRing object (nullptr when absent)
    send_log,          \* history: one entry per sendMessage call, in call order
    recv_log,          \* history: per node, the messages receiveMessage returned
    tick_moves,        \* history: forwards and ejections of the last tick
    num_cores_,        \* MultiCorePE::num_cores_
    current_cycle_,    \* MultiCorePE::current_cycle_
    core_spikes,       \* per core, the spikes handed to cores_[i]->deliverSpike
    deleted_spikes,    \* spikes the tile deleted without delivering them
    spikes_routed,     \* number of spikes given to routeInternalSpike so far
    core,              \* one SnnPESubComponent object (nullptr when absent)
    core_log,          \* history: what the last call on the core did, in order
    fire_log,          \* history: per neuron of the core, its last fire and the ticks since
    weight_loader,     \* the WeightLoader object (nullptr when absent)
    memory,            \* the memory cells the loader wrote: address -> file float
    pe,                \* the other fields of the MultiCorePE object (nullptr when absent)
    spike_pool,        \* the SpikeEvent objects created so far; a pointer is an index
    external_nic_,     \* MultiCorePE::external_nic_, the NIC object (nullptr when absent)
    network,           \* what lies behind the NIC: send credits, packets and link events
    pe_log,            \* history: what the last call on the tile or the NIC did, in order
    topology_handler,  \* the TopologyHandler of the node a spike is at (nullptr when absent)
    in_transit,        \* the spike that travels between tiles: where from, where to, hops
    internal_ring_,    \* MultiCorePE::internal_ring_, the InternalRing object (nullptr when absent)
    ring_ticks,        \* history: per spike the ring accepted, the ring ticks since then
    snn_pe,            \* one standalone SnnPE object (nullptr when absent)
    snn_pe_log         \* history: what the last handler of the SnnPE did, in order

vars == <<optimized_ring_, send_log, recv_log, tick_moves, num_cores_,
          current_cycle_, core_spikes, deleted_spikes, spikes_routed,
          core, core_log, fire_log, weight_loader, memory,
          pe, spike_pool, external_nic_, network, pe_log,
          topology_handler, in_transit,
          internal_ring_, ring_ticks, snn_pe, snn_pe_log>>

coreVars == <<core, core_log, fire_log>>

loaderVars == <<weight_loader, memory>>

peVars == <<pe, spike_pool, external_nic_, network, pe_log>>

\* no tile object beyond the ring and the core slots
NoPE ==
    /\ pe = nullptr
    /\ spike_pool = << >>
    /\ external_nic_ = nullptr
    /\ network = nullptr
    /\ pe_log = << >>

netVars == <<topology_handler, in_transit>>

\* no topology handler
NoNet ==
    /\ topology_handler = nullptr
    /\ in_transit = nullptr

legacyVars == <<internal_ring_, ring_ticks>>

\* no legacy ring: the tile runs the optimized ring
NoLegacy ==
    /\ internal_ring_ = nullptr
    /\ ring_ticks = << >>

snnPEVars == <<snn_pe, snn_pe_log>>

\* no standalone SnnPE
NoSnnPE ==
    /\ snn_pe = nullptr
    /\ snn_pe_log = << >>

ringVars == <<optimized_ring_, send_log, recv_log, tick_moves>>

tileVars == <<num_cores_, current_cycle_, core_spikes, deleted_spikes, spikes_routed>>

Min(S) == CHOOSE x \in S : \A y \in S : x <= y

\* how many messages (spikes) one behaviour injects into a ring (tile) of n nodes
MsgBudget(n) == MaxLoad \div n

\* ---- VirtualChannel -------------------------------------------------------
VirtualChannel(id, prio, max_cred) ==
    [vc_id |-> id, priority |-> prio, state |-> "IDLE", buffer |-> << >>,
     credits |-> max_cred, max_credits |-> max_cred]

hasSpace(vc) == vc.credits > 0 /\ Len(vc.buffer) < vc.max_credits

hasData(vc) == Len(vc.buffer) > 0

\* variant: the credit is not taken
consumeCreditSkipped(vc) == vc

consumeCredit(vc) ==
    IF vc.credits > 0 THEN [vc EXCEPT !.credits = @ - 1] ELSE vc

returnCredit(vc) ==
    IF vc.credits < vc.max_credits THEN [vc EXCEPT !.credits = @ + 1] ELSE vc

\* ---- RingNode -------------------------------------------------------------
\* A vector of VCs is a sequence; the VC at C++ index i is element i + 1.
initializeVCs(num_vcs_per_direction, credits_per_vc) ==
    [i \in 1..num_vcs_per_direction |-> VirtualChannel(i - 1, i - 1, credits_per_vc)]

getVCs(node, direction) ==
    CASE direction = "CLOCKWISE" -> node.cw_vcs
      [] direction = "COUNTER_CLOCKWISE" -> node.ccw_vcs
      [] direction = "LOCAL" -> node.local_vcs
      [] OTHER -> << >>

\* the write through the reference that getVCs returns
setVCs(node, direction, vcs) ==
    CASE direction = "CLOCKWISE" -> [node EXCEPT !.cw_vcs = vcs]
      [] direction = "COUNTER_CLOCKWISE" -> [node EXCEPT !.ccw_vcs = vcs]
      [] direction = "LOCAL" -> [node EXCEPT !.local_vcs = vcs]
      [] OTHER -> node

\* index (1-based) of the chosen VC, 0 for nullptr
selectOutputVC(node, direction, priority) ==
    IF direction \notin {"CLOCKWISE", "COUNTER_CLOCKWISE", "LOCAL"} THEN 0
    ELSE LET vcs == getVCs(node, direction)
             exact == {i \in 1..Len(vcs) : vcs[i].priority = priority /\ hasSpace(vcs[i])}
             any == {i \in 1..Len(vcs) : hasSpace(vcs[i])}
         IN  IF exact # {} THEN Min(exact)
             ELSE IF any # {} THEN Min(any)
             ELSE 0

canAcceptMessage(node, direction, priority) ==
    /\ direction \in {"CLOCKWISE", "COUNTER_CLOCKWISE", "LOCAL"}
    /\ \E i \in 1..Len(getVCs(node, direction)) :
          /\ getVCs(node, direction)[i].priority <= priority
          /\ hasSpace(getVCs(node, direction)[i])

\* ---- OptimizedInternalRing ------------------------------------------------
\* variant: prev_cw is wired to the clockwise successor
initializeTopologyCrossed(num_nodes, i) ==
    [next_cw |-> (i + 1) % num_nodes,
     prev_cw |-> (i + 1) % num_nodes,
     next_ccw |-> (i + num_nodes - 1) % num_nodes,
     prev_ccw |-> (i + 1) % num_nodes]

\* next_cw, prev_cw, next_ccw, prev_ccw hold node ids in place of pointers
initializeTopology(num_nodes, i) ==
    [next_cw |-> (i + 1) % num_nodes,
     prev_cw |-> (i + num_nodes - 1) % num_nodes,
     next_ccw |-> (i + num_nodes - 1) % num_nodes,
     prev_ccw |-> (i + 1) % num_nodes]

RingNode(num_nodes, id, num_vcs, credits_per_vc) ==
    [node_id |-> id,
     next_cw |-> initializeTopology(num_nodes, id).next_cw,
     prev_cw |-> initializeTopology(num_nodes, id).prev_cw,
     next_ccw |-> initializeTopology(num_nodes, id).next_ccw,
     prev_ccw |-> initializeTopology(num_nodes, id).prev_ccw,
     cw_vcs |-> initializeVCs(num_vcs, credits_per_vc),
     ccw_vcs |-> initializeVCs(num_vcs, credits_per_vc),
     local_vcs |-> initializeVCs(num_vcs, credits_per_vc),
     ejection_queue |-> << >>]

OptimizedInternalRing(num_nodes, num_vcs, credits_per_vc) ==
    [num_nodes_ |-> num_nodes,
     num_vcs_ |-> num_vcs,
     credits_per_vc_ |-> credits_per_vc,
     nodes_ |-> [i \in 0..(num_nodes - 1) |-> RingNode(num_nodes, i, num_vcs, credits_per_vc)],
     route_lookup_cache_ |-> << >>,
     total_cycles_ |-> 0]

\* variant: the distance along the line of node ids, without wrap-around
calculateHopsNoWrap(ring, src, dst, direction) ==
    IF dst > src THEN dst - src ELSE src - dst

calculateHops(ring, src, dst, direction) ==
    IF src = dst THEN 0
    ELSE IF direction = "CLOCKWISE"
         THEN (IF dst > src THEN dst - src ELSE ring.num_nodes_ - src + dst)
    ELSE IF direction = "COUNTER_CLOCKWISE"
         THEN (IF src > dst THEN src - dst ELSE ring.num_nodes_ - dst + src)
    ELSE 0

\* (uint64(src) << 32) | uint64(dst): for node ids 0 <= id < 2^32 the two
\* halves of the 64-bit key, kept as the pair <<src, dst>>
generateRouteCacheKey(src, dst) == <<src, dst>>

\* selectRoute is const but fills the mutable route_lookup_cache_: the result
\* is the direction together with the ring holding the updated cache.
selectRouteLongerOnTie(ring, src, dst) ==
    IF src = dst THEN [dir |-> "LOCAL", ring |-> ring]
    ELSE LET cw_hops == calculateHops(ring, src, dst, "CLOCKWISE")
             ccw_hops == calculateHops(ring, src, dst, "COUNTER_CLOCKWISE")
         IN  [dir |-> IF cw_hops >= ccw_hops THEN "CLOCKWISE" ELSE "COUNTER_CLOCKWISE",
              ring |-> ring]

selectRoute(ring, src, dst) ==
    IF src = dst THEN [dir |-> "LOCAL", ring |-> ring]
    ELSE LET cache_key == generateRouteCacheKey(src, dst)
         IN  IF cache_key \in DOMAIN ring.route_lookup_cache_
             THEN [dir |-> ring.route_lookup_cache_[cache_key], ring |-> ring]
             ELSE LET cw_hops == calculateHops(ring, src, dst, "CLOCKWISE")
                      ccw_hops == calculateHops(ring, src, dst, "COUNTER_CLOCKWISE")
                      selected == IF cw_hops <= ccw_hops THEN "CLOCKWISE"
                                  ELSE "COUNTER_CLOCKWISE"
                  IN  [dir |-> selected,
                       ring |-> [ring EXCEPT !.route_lookup_cache_ =
                                    [k \in (DOMAIN @) \cup {cache_key} |->
                                        IF k = cache_key THEN selected ELSE @[k]]]]

\* enqueue of a message into VC number vc (1-based) of a node and direction:
\* buffer.push, consumeCredit, state = ACTIVE
enqueueVC(node, direction, vc, message) ==
    LET vcs == getVCs(node, direction)
        pushed == [vcs[vc] EXCEPT !.buffer = Append(@, message)]
    IN  setVCs(node, direction,
               [vcs EXCEPT ![vc] = [consumeCredit(pushed) EXCEPT !.state = "ACTIVE"]])

\* variant: the credit is returned but the head stays in the buffer
dequeueVCKeepsHead(node, direction, vc) ==
    LET vcs == getVCs(node, direction)
    IN  setVCs(node, direction, [vcs EXCEPT ![vc] = returnCredit(vcs[vc])])

\* removal of the head of VC number vc: buffer.pop, returnCredit
dequeueVC(node, direction, vc) ==
    LET vcs == getVCs(node, direction)
        popped == [vcs[vc] EXCEPT !.buffer = Tail(@)]
    IN  setVCs(node, direction, [vcs EXCEPT ![vc] = returnCredit(popped)])

\* variant: a local send is refused and changes nothing
sendLocalRefused(ring, src_node, message) == [ok |-> FALSE, ring |-> ring]

\* sendMessage, src_node == dst_node: the message goes straight to the
\* ejection queue of the node and the call succeeds
sendLocal(ring, src_node, message) ==
    [ok |-> TRUE,
     ring |-> [ring EXCEPT !.nodes_[src_node].ejection_queue = Append(@, message)]]

\* sendMessage, src_node != dst_node: route, choose a VC of the source node,
\* enqueue the routed copy
sendRouted(ring, src_node, dst_node, message, priority) ==
    LET route == selectRoute(ring, src_node, dst_node)
        vc == selectOutputVC(route.ring.nodes_[src_node], route.dir, priority)
        routed_msg == [message EXCEPT !.src_unit = src_node,
                                      !.dst_unit = dst_node,
                                      !.timestamp = ring.total_cycles_]
    IN  IF route.dir = "INVALID" THEN [ok |-> FALSE, ring |-> route.ring]
        ELSE IF vc = 0 THEN [ok |-> FALSE, ring |-> route.ring]
        ELSE [ok |-> TRUE,
              ring |-> [route.ring EXCEPT !.nodes_[src_node] =
                           enqueueVC(@, route.dir, vc, routed_msg)]]

sendMessage(ring, src_node, dst_node, message, priority) ==
    IF src_node < 0 \/ src_node >= ring.num_nodes_
       \/ dst_node < 0 \/ dst_node >= ring.num_nodes_
    THEN [ok |-> FALSE, ring |-> ring]
    ELSE IF src_node = dst_node
    THEN sendLocal(ring, src_node, message)
    ELSE sendRouted(ring, src_node, dst_node, message, priority)

receiveMessage(ring, node_id) ==
    IF node_id < 0 \/ node_id >= ring.num_nodes_ THEN [ok |-> FALSE, ring |-> ring]
    ELSE IF Len(ring.nodes_[node_id].ejection_queue) = 0 THEN [ok |-> FALSE, ring |-> ring]
    ELSE [ok |-> TRUE,
          message |-> Head(ring.nodes_[node_id].ejection_queue),
          ring |-> [ring EXCEPT !.nodes_[node_id].ejection_queue = Tail(@)]]

vcArbitration(vcs) ==
    LET withData == {i \in 1..Len(vcs) : hasData(vcs[i])}
        best == {i \in withData : \A j \in withData : vcs[i].priority <= vcs[j].priority}
    IN  IF withData = {} THEN 0 ELSE Min(best)

forwardMessage(ring, node_id, message, direction) ==
    IF direction = "LOCAL"
    THEN [ok |-> TRUE,
          ring |-> [ring EXCEPT !.nodes_[node_id].ejection_queue = Append(@, message)]]
    ELSE IF direction \notin {"CLOCKWISE", "COUNTER_CLOCKWISE"}
    THEN [ok |-> FALSE, ring |-> ring]
    ELSE LET next_node == IF direction = "CLOCKWISE"
                          THEN ring.nodes_[node_id].next_cw
                          ELSE ring.nodes_[node_id].next_ccw
             next_vc == selectOutputVC(ring.nodes_[next_node], direction, message.priority)
         IN  IF ~canAcceptMessage(ring.nodes_[next_node], direction, message.priority)
             THEN [ok |-> FALSE, ring |-> ring]
             ELSE IF next_vc = 0 THEN [ok |-> FALSE, ring |-> ring]
             ELSE [ok |-> TRUE,
                   ring |-> [ring EXCEPT !.nodes_[next_node] =
                                enqueueVC(@, direction, next_vc, message)]]

\* The tick operators work on st = [ring, moves]: moves lists, in order, what
\* the tick did (messages_forwarded++ and messages_ejected++ in the code).
processDirectionVCs(st, node_id, direction) ==
    LET ring == st.ring
        node == ring.nodes_[node_id]
        vcs == getVCs(node, direction)
        selected_vc == vcArbitration(vcs)
    IN  IF selected_vc = 0 THEN st
        ELSE IF ~hasData(vcs[selected_vc]) THEN st
        ELSE LET msg == Head(vcs[selected_vc].buffer)
             IN  IF msg.dst_unit = node.node_id
                 THEN [ring |-> [ring EXCEPT !.nodes_[node_id] =
                                    [dequeueVC(node, direction, selected_vc)
                                        EXCEPT !.ejection_queue = Append(@, msg)]],
                       moves |-> Append(st.moves,
                                    [kind |-> "eject", msg |-> msg.payload,
                                     node |-> node_id, dir |-> direction])]
                 ELSE LET route == selectRoute(ring, node.node_id, msg.dst_unit)
                          fwd == forwardMessage(route.ring, node_id, msg, route.dir)
                      IN  IF route.dir = "INVALID"
                          THEN [ring |-> [route.ring EXCEPT !.nodes_[node_id] =
                                            dequeueVC(@, direction, selected_vc)],
                                moves |-> st.moves]
                          ELSE IF fwd.ok
                          THEN [ring |-> [fwd.ring EXCEPT !.nodes_[node_id] =
                                            dequeueVC(@, direction, selected_vc)],
                                moves |-> Append(st.moves,
                                            [kind |-> "forward", msg |-> msg.payload,
                                             node |-> node_id, dir |-> route.dir,
                                             vc_dir |-> direction])]
                          ELSE [ring |-> route.ring, moves |-> st.moves]

\* processInjectionQueue is empty in the source
processNodeRouting(st, node_id) ==
    processDirectionVCs(processDirectionVCs(st, node_id, "CLOCKWISE"),
                        node_id, "COUNTER_CLOCKWISE")

RECURSIVE tickNodes(_, _)
tickNodes(st, i) ==
    IF i >= st.ring.num_nodes_ THEN st
    ELSE tickNodes(processNodeRouting(st, i), i + 1)

\* updateStatistics (every 1000 cycles) only refreshes counters
tick(ring, current_cycle) ==
    tickNodes([ring |-> [ring EXCEPT !.total_cycles_ = current_cycle],
               moves |-> << >>], 0)

\* detectDeadlock: true when some clockwise VC holds data without space and
\* every clockwise VC of every node does.  tick does not call it, and nothing
\* else does.
detectDeadlock(ring) ==
    \E i \in 0..(ring.num_nodes_ - 1) :
        \E k \in 1..Len(ring.nodes_[i].cw_vcs) :
            /\ hasData(ring.nodes_[i].cw_vcs[k]) /\ ~hasSpace(ring.nodes_[i].cw_vcs[k])
            /\ \A j \in 0..(ring.num_nodes_ - 1) :
                  \A l \in 1..Len(ring.nodes_[j].cw_vcs) :
                      hasData(ring.nodes_[j].cw_vcs[l]) /\ ~hasSpace(ring.nodes_[j].cw_vcs[l])

\* ---- the ring driven through its public interface ---------------------------
\* RingMessage(): the default constructor; no code of the repository assigns
\* the priority field afterwards.
RingMessage ==
    [type |-> "SPIKE_MESSAGE", src_unit |-> -1, dst_unit |-> -1,
     timestamp |-> 0, priority |-> DefaultPriority, payload |-> NullSpike]

Init ==
    /\ \E n \in 2..MaxNodes, v \in 1..MaxVCs, c \in 1..MaxCredits :
          /\ optimized_ring_ = OptimizedInternalRing(n, v, c)
          /\ num_cores_ = n
          /\ recv_log = [i \in 0..(n - 1) |-> << >>]
          /\ core_spikes = [i \in 0..(n - 1) |-> << >>]
    /\ send_log = << >>
    /\ tick_moves = << >>
    /\ current_cycle_ = 0
    /\ deleted_spikes = {}
    /\ spikes_routed = 0
    /\ core = nullptr
    /\ core_log = << >>
    /\ fire_log = << >>
    /\ weight_loader = nullptr
    /\ memory = << >>
    /\ NoPE
    /\ NoNet
    /\ NoLegacy
    /\ NoSnnPE

\* the entry of send_log for one call of sendMessage
SendRecord(ring, payload, src, dst, priority, ok) ==
    [payload |-> payload, src |-> src, dst |-> dst, priority |-> priority,
     cycle |-> ring.total_cycles_, ok |-> ok]

SendMessage ==
    /\ Len(send_log) < MsgBudget(optimized_ring_.num_nodes_)
    /\ \E src \in 0..(optimized_ring_.num_nodes_ - 1),
          dst \in 0..(optimized_ring_.num_nodes_ - 1),
          priority \in Priorities :
          LET payload == Len(send_log) + 1
              message == [RingMessage EXCEPT !.src_unit = src, !.dst_unit = dst,
                                             !.payload = payload]
              res == sendMessage(optimized_ring_, src, dst, message, priority)
          IN  /\ optimized_ring_' = res.ring
              /\ send_log' = Append(send_log,
                     SendRecord(optimized_ring_, payload, src, dst, priority, res.ok))
    /\ UNCHANGED <<recv_log, tick_moves>>
    /\ UNCHANGED tileVars
    /\ UNCHANGED <<coreVars, loaderVars, peVars, netVars, legacyVars, snnPEVars>>

Tick ==
    /\ optimized_ring_.total_cycles_ < MaxCycles
    /\ LET res == tick(optimized_ring_, optimized_ring_.total_cycles_ + 1)
       IN  /\ optimized_ring_' = res.ring
           /\ tick_moves' = res.moves
    /\ UNCHANGED <<send_log, recv_log>>
    /\ UNCHANGED tileVars
    /\ UNCHANGED <<coreVars, loaderVars, peVars, netVars, legacyVars, snnPEVars>>

\* receiveMessage on an empty ejection queue returns false and changes nothing
ReceiveMessage ==
    /\ \E node_id \in 0..(optimized_ring_.num_nodes_ - 1) :
          LET res == receiveMessage(optimized_ring_, node_id)
          IN  /\ res.ok
              /\ optimized_ring_' = res.ring
              /\ recv_log' = [recv_log EXCEPT ![node_id] = Append(@, res.message)]
    /\ UNCHANGED <<send_log, tick_moves>>
    /\ UNCHANGED tileVars
    /\ UNCHANGED <<coreVars, loaderVars, peVars, netVars, legacyVars, snnPEVars>>

Next == SendMessage \/ Tick \/ ReceiveMessage

Spec == Init /\ [][Next]_vars

\* ---- MultiCorePE: the tile around the ring ------------------------------------
\* initializeInternalRing: no ring for a single core.  The tile passes
\* credits_per_vc = 8; the model lets the ring's constructor argument range
\* over 1..MaxCredits.
initializeInternalRing(num_cores, credits_per_vc) ==
    IF num_cores <= 1 THEN nullptr
    ELSE OptimizedInternalRing(num_cores, TileNumVCs, credits_per_vc)

TileInit ==
    /\ \E n \in 1..MaxNodes, c \in 1..MaxCredits :
          /\ num_cores_ = n
          /\ optimized_ring_ = initializeInternalRing(n, c)
          /\ recv_log = [i \in 0..(n - 1) |-> << >>]
          /\ core_spikes = [i \in 0..(n - 1) |-> << >>]
    /\ send_log = << >>
    /\ tick_moves = << >>
    /\ current_cycle_ = 0
    /\ deleted_spikes = {}
    /\ spikes_routed = 0
    /\ core = nullptr
    /\ core_log = << >>
    /\ fire_log = << >>
    /\ weight_loader = nullptr
    /\ memory = << >>
    /\ NoPE
    /\ NoNet
    /\ NoLegacy
    /\ NoSnnPE

\* a delivery that puts the spike into the core's inbound queue twice
deliverSpikeToCoreTwice(t, core_id, spike) ==
    IF core_id < 0 \/ core_id >= num_cores_ \/ spike = NullSpike
    THEN [t EXCEPT !.deleted = @ \cup ({spike} \ {NullSpike})]
    ELSE [t EXCEPT !.cores[core_id] = Append(Append(@, spike), spike)]

\* deliverSpikeToCore: every core slot is loaded; a bad core id deletes the spike.
\* t = [cores, deleted]
deliverSpikeToCore(t, core_id, spike) ==
    IF core_id < 0 \/ core_id >= num_cores_ \/ spike = NullSpike
    THEN [t EXCEPT !.deleted = @ \cup ({spike} \ {NullSpike})]
    ELSE [t EXCEPT !.cores[core_id] = Append(@, spike)]

\* routeInternalSpike(src_core, dst_core, spike): the callers pass core ids that
\* determineTargetUnit returned, and the action draws them accordingly.
RouteInternalSpike ==
    /\ spikes_routed < MsgBudget(num_cores_)
    /\ \E src_core \in 0..(num_cores_ - 1), dst_core \in 0..(num_cores_ - 1) :
          LET spike == spikes_routed + 1
              t == [cores |-> core_spikes, deleted |-> deleted_spikes]
              msg == [RingMessage EXCEPT !.src_unit = src_core, !.dst_unit = dst_core,
                                         !.timestamp = current_cycle_,
                                         !.payload = spike]
          IN  IF src_core < 0 \/ src_core >= num_cores_
                 \/ dst_core < 0 \/ dst_core >= num_cores_
              THEN /\ deleted_spikes' = deleted_spikes \cup {spike}
                   /\ UNCHANGED <<core_spikes, optimized_ring_, send_log>>
              ELSE IF num_cores_ <= 1 \/ src_core = dst_core
              THEN /\ core_spikes' = deliverSpikeToCore(t, dst_core, spike).cores
                   /\ deleted_spikes' = deliverSpikeToCore(t, dst_core, spike).deleted
                   /\ UNCHANGED <<optimized_ring_, send_log>>
              ELSE IF optimized_ring_ # nullptr
              THEN LET res == sendMessage(optimized_ring_, src_core, dst_core, msg, 1)
                   IN  /\ optimized_ring_' = res.ring
                       /\ send_log' = Append(send_log,
                              SendRecord(optimized_ring_, spike, src_core, dst_core, 1, res.ok))
                       /\ deleted_spikes' = IF res.ok THEN deleted_spikes
                                            ELSE deleted_spikes \cup {spike}
                       /\ UNCHANGED core_spikes
              ELSE /\ deleted_spikes' = deleted_spikes \cup {spike}
                   /\ UNCHANGED <<core_spikes, optimized_ring_, send_log>>
    /\ spikes_routed' = spikes_routed + 1
    /\ UNCHANGED <<recv_log, tick_moves, num_cores_, current_cycle_>>
    /\ UNCHANGED <<coreVars, loaderVars, peVars, netVars, legacyVars, snnPEVars>>

\* handleOptimizedCrossCoreRouting: for every core i in turn, receiveMessage
\* until the ejection queue of node i is empty, each spike handed to the core
\* named by msg.dst_unit.  d = [ring, t, recv]
RECURSIVE drainNode(_, _)
drainNode(d, i) ==
    LET res == receiveMessage(d.ring, i)
    IN  IF ~res.ok THEN d
        ELSE drainNode(
                [ring |-> res.ring,
                 t |-> IF res.message.type = "SPIKE_MESSAGE" /\ res.message.payload # NullSpike
                       THEN deliverSpikeToCore(d.t, res.message.dst_unit, res.message.payload)
                       ELSE d.t,
                 recv |-> [d.recv EXCEPT ![i] = Append(@, res.message)]], i)

RECURSIVE handleOptimizedCrossCoreRouting(_, _)
handleOptimizedCrossCoreRouting(d, i) ==
    IF i >= num_cores_ THEN d
    ELSE handleOptimizedCrossCoreRouting(drainNode(d, i), i + 1)

\* clockTick: the ring's tick and the cross-core routing that follows it.  The
\* cores run on clocks of their own and reach the tile through sendSpike.
ClockTick ==
    /\ current_cycle_ < MaxCycles
    /\ current_cycle_' = current_cycle_ + 1
    /\ IF optimized_ring_ # nullptr
       THEN LET ticked == tick(optimized_ring_, current_cycle_ + 1)
                d == handleOptimizedCrossCoreRouting(
                        [ring |-> ticked.ring,
                         t |-> [cores |-> core_spikes, deleted |-> deleted_spikes],
                         recv |-> recv_log], 0)
            IN  /\ optimized_ring_' = d.ring
                /\ tick_moves' = ticked.moves
                /\ core_spikes' = d.t.cores
                /\ deleted_spikes' = d.t.deleted
                /\ recv_log' = d.recv
       ELSE UNCHANGED <<optimized_ring_, tick_moves, core_spikes, deleted_spikes, recv_log>>
    /\ UNCHANGED <<send_log, num_cores_, spikes_routed>>
    /\ UNCHANGED <<coreVars, loaderVars, peVars, netVars, legacyVars, snnPEVars>>

TileNext == RouteInternalSpike \/ ClockTick

TileSpec == TileInit /\ [][TileNext]_vars

\* ---- SnnPESubComponent: one core -----------------------------------------------
\* Membrane potentials and weights are floats in the source; the model counts
\* them in units of init_default_weight_ (0.5f), so v_thresh = 1.0f is 2.
BytesPerFloat == 4   \* sizeof(float)

NeuronState(v_rest) == [v_mem |-> v_rest, refractory_timer |-> 0]

SpikeEvent(source, dest_n, w) ==
    [source_neuron |-> source, destination_neuron |-> dest_n, weight |-> w]

\* x mod 2^64 taken modulo n, for |x| < 2^64 and small n: 2^64 mod n is
\* ((2^16 mod n)^4) mod n
U64Mod(x, n) ==
    LET p16 == 65536 % n
        p64 == (p16 * p16 * p16 * p16) % n
    IN  IF x >= 0 THEN x % n ELSE ((x % n) + p64) % n

\* the float the memory holds at a byte address: the weight loader's file value
\* of that cell; the values 1 and 2 alternate with the cell index
MemFloat(addr) == 1 + ((addr \div BytesPerFloat) % 2)

\* the data of the ReadResp to a Read of size bytes at addr
ReadRespData(addr, size) ==
    [i \in 1..(size \div BytesPerFloat) |-> MemFloat(addr + (i - 1) * BytesPerFloat)]

\* the object after its constructor, init phases and setup, for one parameter set
SnnPESubComponent(params) ==
    [core_id_ |-> params.core_id,
     global_neuron_base_ |-> params.global_neuron_base,
     num_neurons_ |-> params.num_neurons,
     v_thresh_ |-> params.v_thresh,
     v_reset_ |-> params.v_reset,
     v_rest_ |-> params.v_rest,
     t_ref_ |-> params.t_ref,
     base_addr_ |-> params.base_addr,
     node_id_ |-> params.node_id,
     enable_weight_fetch_ |-> params.enable_weight_fetch,
     memory_warmup_cycles_ |-> params.memory_warmup_cycles,
     max_outstanding_requests_ |-> params.max_outstanding_requests,
     max_cache_entries_ |-> params.max_cache_entries,
     use_event_weight_fallback_ |-> params.use_event_weight_fallback,
     merge_read_cacheline_ |-> params.merge_read_cacheline,
     merge_read_row_ |-> params.merge_read_row,
     line_size_bytes_ |-> params.line_size_bytes,
     verify_weights_ |-> params.verify_weights,
     weight_verify_samples_ |-> params.weight_verify_samples,
     neuron_states_ |-> [i \in 0..(params.num_neurons - 1) |-> NeuronState(params.v_rest)],
     incoming_spikes_ |-> << >>,
     memory_ |-> TRUE,
     memory_ready_ |-> TRUE,
     weight_cache_ |-> << >>,
     outstanding_requests_ |-> 0,
     pending_memory_requests_ |-> << >>,
     total_cycles_ |-> 0,
     delayed_read_triggered_ |-> FALSE,
     verify_requested_ |-> 0,
     verify_completed_ |-> 0,
     count_spikes_received_ |-> 0,
     count_spikes_generated_ |-> 0,
     count_neurons_fired_ |-> 0,
     count_memory_requests_ |-> 0]

\* The core operators work on st = [core, log]; log lists what the call did.
\* applyLeak: exp(-1/tau_mem_) is a factor in (0, 1); the model halves the
\* distance to v_rest and rounds toward v_rest.
applyLeak(c, neuron_idx) ==
    IF neuron_idx >= c.num_neurons_ THEN c
    ELSE IF c.neuron_states_[neuron_idx].v_mem > c.v_rest_
    THEN [c EXCEPT !.neuron_states_[neuron_idx].v_mem = c.v_rest_ + ((@ - c.v_rest_) \div 2)]
    ELSE c

RECURSIVE updateNeuronStatesFrom(_, _)
updateNeuronStatesFrom(c, i) ==
    IF i >= c.num_neurons_ THEN c
    ELSE IF c.neuron_states_[i].refractory_timer > 0
    THEN updateNeuronStatesFrom(
            [c EXCEPT !.neuron_states_[i].refractory_timer = @ - 1], i + 1)
    ELSE updateNeuronStatesFrom(applyLeak(c, i), i + 1)

updateNeuronStates(c) == updateNeuronStatesFrom(c, 0)

\* the output spike of a firing neuron, by the layer of node_id_ (none from
\* the output layer)
outputSpike(c, neuron_idx) ==
    IF c.node_id_ >= 0 /\ c.node_id_ <= 3
    THEN LET target_hidden_base == IF c.node_id_ < 2 THEN 4 ELSE 8
             target_hidden_node == target_hidden_base + (c.node_id_ % 2) * 2 + (neuron_idx % 2)
         IN  <<[source |-> c.global_neuron_base_ + neuron_idx,
                target_neuron |-> 8 + (target_hidden_node - 4) * 4 + neuron_idx,
                target_node |-> target_hidden_node]>>
    ELSE IF c.node_id_ >= 4 /\ c.node_id_ <= 11
    THEN LET target_output_node == 12 + ((c.node_id_ - 4) \div 2)
         IN  <<[source |-> c.global_neuron_base_ + neuron_idx,
                target_neuron |-> 40 + (target_output_node - 12) * 2 + (neuron_idx % 2),
                target_node |-> target_output_node]>>
    ELSE << >>

\* a firing check that does not look at the refractory timer
checkAndFireSpikeInRefractory(st, neuron_idx) ==
    IF neuron_idx >= st.core.num_neurons_ THEN st
    ELSE LET c == st.core
             neuron == c.neuron_states_[neuron_idx]
             fires == neuron.v_mem >= c.v_thresh_
             entry == [kind |-> "check", neuron |-> neuron_idx, v_mem |-> neuron.v_mem,
                       refractory_timer |-> neuron.refractory_timer, fired |-> fires,
                       sent |-> IF fires THEN outputSpike(c, neuron_idx) ELSE << >>]
         IN  IF fires
             THEN [core |-> [c EXCEPT !.neuron_states_[neuron_idx] =
                                          [v_mem |-> c.v_reset_, refractory_timer |-> c.t_ref_],
                                      !.count_neurons_fired_ = @ + 1,
                                      !.count_spikes_generated_ = @ + 1],
                   log |-> Append(st.log, entry)]
             ELSE [core |-> c, log |-> Append(st.log, entry)]

checkAndFireSpike(st, neuron_idx) ==
    IF neuron_idx >= st.core.num_neurons_ THEN st
    ELSE LET c == st.core
             neuron == c.neuron_states_[neuron_idx]
             fires == neuron.v_mem >= c.v_thresh_ /\ neuron.refractory_timer = 0
             entry == [kind |-> "check", neuron |-> neuron_idx, v_mem |-> neuron.v_mem,
                       refractory_timer |-> neuron.refractory_timer, fired |-> fires,
                       sent |-> IF fires THEN outputSpike(c, neuron_idx) ELSE << >>]
         IN  IF fires
             THEN [core |-> [c EXCEPT !.neuron_states_[neuron_idx] =
                                          [v_mem |-> c.v_reset_, refractory_timer |-> c.t_ref_],
                                      !.count_neurons_fired_ = @ + 1,
                                      !.count_spikes_generated_ = @ + 1],
                   log |-> Append(st.log, entry)]
             ELSE [core |-> c, log |-> Append(st.log, entry)]

\* weight_cache_[key] = w with the capacity check that precedes it
cacheInsert(c, key, w) ==
    LET kept == IF Cardinality(DOMAIN c.weight_cache_) >= c.max_cache_entries_
                THEN << >> ELSE c.weight_cache_
    IN  [c EXCEPT !.weight_cache_ =
            [k \in (DOMAIN kept) \cup {key} |-> IF k = key THEN w ELSE kept[k]]]

\* the three lambdas handed to requestWeight: cb.kind names the call site
callCallback(c, cb, w) ==
    CASE cb.kind = "cache" ->
            LET ins == cacheInsert(c, cb.key, w)
            IN  IF ins.outstanding_requests_ > 0
                THEN [ins EXCEPT !.outstanding_requests_ = @ - 1] ELSE ins
      [] cb.kind = "verify" -> [c EXCEPT !.verify_completed_ = @ + 1]
      [] OTHER -> c

floatsPerLine(c) ==
    IF c.line_size_bytes_ \div BytesPerFloat >= 1
    THEN c.line_size_bytes_ \div BytesPerFloat ELSE 1

\* the PendingMemoryRequest that requestWeight builds for (pre, post)
PendingMemoryRequest(c, pre_neuron, post_neuron, callback) ==
    LET post_start == IF c.merge_read_row_ THEN 0
                      ELSE IF c.merge_read_cacheline_
                      THEN (post_neuron \div floatsPerLine(c)) * floatsPerLine(c)
                      ELSE post_neuron
        count_floats == IF c.merge_read_row_ THEN c.num_neurons_
                        ELSE IF c.merge_read_cacheline_
                        THEN Min({floatsPerLine(c), c.num_neurons_ - post_start})
                        ELSE 1
    IN  [request_id |-> c.count_memory_requests_ + 1,
         address |-> c.base_addr_ + (pre_neuron * c.num_neurons_ + post_start) * BytesPerFloat,
         size |-> count_floats * BytesPerFloat,
         is_row |-> c.merge_read_row_,
         pre |-> pre_neuron,
         post_start |-> post_start,
         count_floats |-> count_floats,
         has_single_cb |-> TRUE,
         cb_post |-> post_neuron,
         single_cb |-> callback]

requestWeight(st, pre_neuron, post_neuron, callback) ==
    LET c == st.core
        pmr == PendingMemoryRequest(c, pre_neuron, post_neuron, callback)
    IN  IF ~c.memory_
        THEN [core |-> callCallback(c, callback, 1), log |-> st.log]
        ELSE [core |-> [c EXCEPT !.pending_memory_requests_ =
                                    [r \in (DOMAIN @) \cup {pmr.request_id} |->
                                        IF r = pmr.request_id THEN pmr ELSE @[r]],
                                 !.count_memory_requests_ = @ + 1],
              log |-> Append(st.log, [kind |-> "read", request_id |-> pmr.request_id,
                                      addr |-> pmr.address, size |-> pmr.size,
                                      pre |-> pre_neuron, post |-> post_neuron])]

\* the local index processLocalSpike gives the destination (-1: not mappable)
targetNeuron(c, dest) ==
    IF dest >= c.num_neurons_
    THEN (IF dest >= c.global_neuron_base_ /\ dest < c.global_neuron_base_ + c.num_neurons_
          THEN dest - c.global_neuron_base_ ELSE -1)
    ELSE dest

\* pre_local: uint64 arithmetic, pe_base = global_neuron_base_ - core_id_ * num_neurons_
preLocal(c, pre_global) ==
    IF pre_global >= c.global_neuron_base_
       /\ pre_global < c.global_neuron_base_ + c.num_neurons_
    THEN pre_global - c.global_neuron_base_
    ELSE U64Mod(pre_global - (c.global_neuron_base_ - c.core_id_ * c.num_neurons_),
                c.num_neurons_)

postLocal(c, post_global) ==
    IF post_global >= c.global_neuron_base_
       /\ post_global < c.global_neuron_base_ + c.num_neurons_
    THEN post_global - c.global_neuron_base_
    ELSE targetNeuron(c, post_global)

cacheKey(c, pre_local, post_local) == pre_local * c.num_neurons_ + post_local

\* a spike handler that integrates into a refractory neuron below threshold
processLocalSpikeInRefractory(st, spike_event) ==
    LET c == st.core
        target_neuron == targetNeuron(c, spike_event.destination_neuron)
    IN  IF target_neuron = -1
        THEN [core |-> c,
              log |-> Append(st.log, [kind |-> "spike", outcome |-> "unmapped",
                                      spike |-> spike_event])]
        ELSE
        LET neuron == c.neuron_states_[target_neuron]
            pre_local == preLocal(c, spike_event.source_neuron)
            post_local == postLocal(c, spike_event.destination_neuron)
            key == cacheKey(c, pre_local, post_local)
            fetch == c.enable_weight_fetch_ /\ c.memory_ /\ c.memory_ready_
            hit == fetch /\ key \in DOMAIN c.weight_cache_
            issue == fetch /\ ~hit /\ c.outstanding_requests_ < c.max_outstanding_requests_
            requested ==
                IF issue
                THEN requestWeight(
                        [core |-> [c EXCEPT !.outstanding_requests_ = @ + 1], log |-> st.log],
                        pre_local, post_local, [kind |-> "cache", key |-> key])
                ELSE st
            weight == IF hit THEN c.weight_cache_[key]
                      ELSE IF c.use_event_weight_fallback_ THEN spike_event.weight
                      ELSE 0
            integrated == [requested.core EXCEPT
                              !.neuron_states_[target_neuron].v_mem = @ + weight]
            entry == [kind |-> "spike", spike |-> spike_event, target |-> target_neuron,
                      refractory_timer |-> neuron.refractory_timer,
                      v_before |-> neuron.v_mem,
                      pre_local |-> pre_local, post_local |-> post_local, key |-> key]
        IN  IF neuron.refractory_timer > 0 /\ neuron.v_mem >= c.v_thresh_
            THEN [core |-> c,
                  log |-> Append(st.log, entry @@ [outcome |-> "refractory",
                                                   v_after |-> neuron.v_mem])]
            ELSE checkAndFireSpike(
                    [core |-> integrated,
                     log |-> Append(requested.log,
                                entry @@ [outcome |-> IF hit THEN "hit"
                                                      ELSE IF issue THEN "miss" ELSE "skip",
                                          v_after |-> neuron.v_mem + weight])],
                    target_neuron)

processLocalSpike(st, spike_event) ==
    LET c == st.core
        target_neuron == targetNeuron(c, spike_event.destination_neuron)
    IN  IF target_neuron = -1
        THEN [core |-> c,
              log |-> Append(st.log, [kind |-> "spike", outcome |-> "unmapped",
                                      spike |-> spike_event])]
        ELSE
        LET neuron == c.neuron_states_[target_neuron]
            pre_local == preLocal(c, spike_event.source_neuron)
            post_local == postLocal(c, spike_event.destination_neuron)
            key == cacheKey(c, pre_local, post_local)
            fetch == c.enable_weight_fetch_ /\ c.memory_ /\ c.memory_ready_
            hit == fetch /\ key \in DOMAIN c.weight_cache_
            issue == fetch /\ ~hit /\ c.outstanding_requests_ < c.max_outstanding_requests_
            requested ==
                IF issue
                THEN requestWeight(
                        [core |-> [c EXCEPT !.outstanding_requests_ = @ + 1], log |-> st.log],
                        pre_local, post_local, [kind |-> "cache", key |-> key])
                ELSE st
            weight == IF hit THEN c.weight_cache_[key]
                      ELSE IF c.use_event_weight_fallback_ THEN spike_event.weight
                      ELSE 0
            integrated == [requested.core EXCEPT
                              !.neuron_states_[target_neuron].v_mem = @ + weight]
            entry == [kind |-> "spike", spike |-> spike_event, target |-> target_neuron,
                      refractory_timer |-> neuron.refractory_timer,
                      v_before |-> neuron.v_mem,
                      pre_local |-> pre_local, post_local |-> post_local, key |-> key]
        IN  IF neuron.refractory_timer > 0
            THEN [core |-> c,
                  log |-> Append(st.log, entry @@ [outcome |-> "refractory",
                                                   v_after |-> neuron.v_mem])]
            ELSE checkAndFireSpike(
                    [core |-> integrated,
                     log |-> Append(requested.log,
                                entry @@ [outcome |-> IF hit THEN "hit"
                                                      ELSE IF issue THEN "miss" ELSE "skip",
                                          v_after |-> neuron.v_mem + weight])],
                    target_neuron)

\* the cache fill of handleMemoryResponse: floats i, i + 1, ... of the data
RECURSIVE fillCache(_, _, _, _)
fillCache(c, pending_req, data, i) ==
    IF i >= Len(data) THEN c
    ELSE IF pending_req.post_start + i >= c.num_neurons_ THEN c
    ELSE fillCache(cacheInsert(c, cacheKey(c, pending_req.pre, pending_req.post_start + i),
                               data[i + 1]),
                   pending_req, data, i + 1)

\* handleMemoryResponse for the response with id req_id; data is readResp->data
\* as floats (empty for a response that is no ReadResp or carries no data)
handleMemoryResponse(st, req_id, data) ==
    LET c == st.core
    IN  IF req_id \notin DOMAIN c.pending_memory_requests_ THEN st
        ELSE
        LET pending_req == c.pending_memory_requests_[req_id]
            erased == [c EXCEPT !.pending_memory_requests_ =
                          [r \in (DOMAIN @) \ {req_id} |-> @[r]]]
            filled == IF Len(data) > 0 THEN fillCache(erased, pending_req, data, 0) ELSE erased
            key == cacheKey(c, pending_req.pre, pending_req.cb_post)
            value == IF Len(data) > 0 /\ key \in DOMAIN filled.weight_cache_
                     THEN filled.weight_cache_[key] ELSE 0
            called == IF pending_req.has_single_cb
                      THEN callCallback(filled, pending_req.single_cb, value)
                      ELSE filled
            done == IF called.outstanding_requests_ > 0
                    THEN [called EXCEPT !.outstanding_requests_ = @ - 1] ELSE called
        IN  [core |-> done,
             log |-> Append(st.log, [kind |-> "response", request |-> pending_req,
                                     floats |-> Len(data)])]

\* the while loop of clockTick over incoming_spikes_
RECURSIVE drainIncomingSpikes(_)
drainIncomingSpikes(st) ==
    IF st.core.incoming_spikes_ = << >> THEN st
    ELSE drainIncomingSpikes(
            processLocalSpike([core |-> [st.core EXCEPT !.incoming_spikes_ = Tail(@)],
                               log |-> st.log],
                              Head(st.core.incoming_spikes_)))

memoryWarm(c) == c.memory_ /\ c.memory_ready_ /\ c.total_cycles_ >= c.memory_warmup_cycles_

\* the one read clockTick issues once the warm-up is over
delayedRead(st) ==
    IF st.core.enable_weight_fetch_ /\ memoryWarm(st.core) /\ ~st.core.delayed_read_triggered_
    THEN LET r == requestWeight(st, 0, 0, [kind |-> "delayed"])
         IN  [core |-> [r.core EXCEPT !.delayed_read_triggered_ = TRUE], log |-> r.log]
    ELSE st

\* the weight verification samples of clockTick, at most one a cycle
verifyRead(st) ==
    LET c == st.core
    IN  IF c.verify_weights_ /\ memoryWarm(c)
           /\ c.verify_completed_ < c.weight_verify_samples_
           /\ c.verify_requested_ - c.verify_completed_ < c.max_outstanding_requests_
        THEN LET r == requestWeight(st, (c.verify_requested_ * 7) % c.num_neurons_,
                                    (c.verify_requested_ * 13) % c.num_neurons_,
                                    [kind |-> "verify"])
             IN  [core |-> [r.core EXCEPT !.verify_requested_ = @ + 1], log |-> r.log]
        ELSE st

RECURSIVE checkAllFrom(_, _)
checkAllFrom(st, i) ==
    IF i >= st.core.num_neurons_ THEN st
    ELSE checkAllFrom(checkAndFireSpike(st, i), i + 1)

clockTick(st) ==
    LET ticked == [core |-> [st.core EXCEPT !.total_cycles_ = @ + 1], log |-> st.log]
        drained == drainIncomingSpikes(ticked)
        read == verifyRead(delayedRead(drained))
        updated == [core |-> updateNeuronStates(read.core),
                    log |-> Append(read.log, [kind |-> "update"])]
    IN  checkAllFrom(updated, 0)

deliverSpike(c, spike) ==
    [c EXCEPT !.incoming_spikes_ = Append(@, spike),
              !.count_spikes_received_ = @ + 1]

\* ---- the core under its parameter sets ----------------------------------------
VThresh == 2         \* v_thresh 1.0f in units of 0.5f
TRef == 2            \* t_ref
LineSizeBytes == 8   \* line_size_bytes: two floats a cacheline

\* the parameters SnnPESubComponent reads, at the values the runs start from
DefaultParams ==
    [core_id |-> 0, global_neuron_base |-> 0, num_neurons |-> MaxNeurons,
     v_thresh |-> VThresh, v_reset |-> 0, v_rest |-> 0, t_ref |-> TRef,
     base_addr |-> 0, node_id |-> 0,
     enable_weight_fetch |-> FALSE, memory_warmup_cycles |-> MaxCoreCycles + 1,
     max_outstanding_requests |-> MaxOutstanding, max_cache_entries |-> MaxCacheEntries,
     use_event_weight_fallback |-> FALSE,
     merge_read_cacheline |-> TRUE, merge_read_row |-> FALSE,
     line_size_bytes |-> LineSizeBytes,
     verify_weights |-> FALSE, weight_verify_samples |-> 1]

\* cores that integrate the event weight (or nothing) and never read memory
ParamsNoFetch ==
    {[DefaultParams EXCEPT !.use_event_weight_fallback = fb, !.v_reset = vr] :
        fb \in BOOLEAN, vr \in {0, VThresh}}

\* cores that fetch weights on a miss only: merge mode, cache size and window
ParamsFetch ==
    {[DefaultParams EXCEPT !.enable_weight_fetch = TRUE,
                           !.merge_read_cacheline = (mode = "cacheline"),
                           !.merge_read_row = (mode = "row"),
                           !.max_cache_entries = ce,
                           !.max_outstanding_requests = mo] :
        mode \in {"single", "cacheline", "row"},
        ce \in 0..MaxCacheEntries, mo \in 1..MaxOutstanding}

\* cores whose warm-up ends in the first cycle: the delayed read and the
\* verification samples, on either core of a two-core tile
ParamsWarm ==
    {[DefaultParams EXCEPT !.enable_weight_fetch = TRUE,
                           !.memory_warmup_cycles = 1,
                           !.max_outstanding_requests = mo,
                           !.verify_weights = vw,
                           !.core_id = id,
                           !.global_neuron_base = id * MaxNeurons,
                           !.base_addr = id * MaxNeurons * 1000] :
        mo \in 1..MaxOutstanding, vw \in BOOLEAN, id \in 0..1}

\* the spikes the tile can hand to the core: a source inside or outside the
\* core, a destination given as local index, as global id, or not mappable.
\* The source is read only when weights are fetched, the weight only on
\* the event-weight fallback.
CoreSpikes(c) ==
    {SpikeEvent(s, d, w) :
        s \in IF c.enable_weight_fetch_
              THEN {c.global_neuron_base_, c.global_neuron_base_ + c.num_neurons_ + 1}
              ELSE {c.global_neuron_base_},
        d \in {0, c.global_neuron_base_ + c.num_neurons_ - 1, 2 * c.num_neurons_},
        w \in IF c.use_event_weight_fallback_ THEN {1, VThresh} ELSE {1}}

CoreInit ==
    /\ \E params \in ParamsNoFetch \cup ParamsFetch \cup ParamsWarm : core = SnnPESubComponent(params)
    /\ core_log = << >>
    /\ fire_log = << >>
    /\ weight_loader = nullptr
    /\ memory = << >>
    /\ optimized_ring_ = nullptr
    /\ send_log = << >>
    /\ recv_log = << >>
    /\ tick_moves = << >>
    /\ num_cores_ = 0
    /\ current_cycle_ = 0
    /\ core_spikes = << >>
    /\ deleted_spikes = {}
    /\ spikes_routed = 0
    /\ NoPE
    /\ NoNet
    /\ NoLegacy
    /\ NoSnnPE

\* the tile delivers one spike to the core
DeliverSpike ==
    /\ core.count_spikes_received_ < MaxCoreSpikes
    /\ \E spike \in CoreSpikes(core) :
          /\ core' = deliverSpike(core, spike)
          /\ core_log' = <<[kind |-> "deliver", spike |-> spike]>>
          /\ UNCHANGED fire_log
    /\ UNCHANGED <<ringVars, tileVars, loaderVars, peVars, netVars, legacyVars, snnPEVars>>

\* one tick of the core's clock
CoreClockTick ==
    /\ core.total_cycles_ < MaxCoreCycles
    /\ LET r == clockTick([core |-> core, log |-> << >>])
       IN  core' = r.core /\ core_log' = r.log /\ UNCHANGED fire_log
    /\ UNCHANGED <<ringVars, tileVars, loaderVars, peVars, netVars, legacyVars, snnPEVars>>

\* the memory answers one of the reads in flight, in any order
HandleMemoryResponse ==
    /\ \E req_id \in DOMAIN core.pending_memory_requests_ :
          LET req == core.pending_memory_requests_[req_id]
              r == handleMemoryResponse([core |-> core, log |-> << >>], req_id,
                                        ReadRespData(req.address, req.size))
          IN  core' = r.core /\ core_log' = r.log /\ UNCHANGED fire_log
    /\ UNCHANGED <<ringVars, tileVars, loaderVars, peVars, netVars, legacyVars, snnPEVars>>

CoreNext == DeliverSpike \/ CoreClockTick \/ HandleMemoryResponse

CoreSpec == CoreInit /\ [][CoreNext]_vars

\* ---- weight addresses: tile, core and loader -----------------------------------
BaseAddrFactor == 1000   \* base_addr = neuron_id_start * 1000

\* the parameters initializeProcessingUnits hands to core i of the tile
initializeProcessingUnits(node_id, num_cores, neurons_per_core, global_neuron_base, i) ==
    LET total_neurons == num_cores * neurons_per_core
        neuron_id_start == node_id * total_neurons + i * neurons_per_core
    IN  [DefaultParams EXCEPT !.core_id = i,
                              !.num_neurons = num_cores * neurons_per_core,
                              !.global_neuron_base = global_neuron_base,
                              !.node_id = node_id,
                              !.base_addr = neuron_id_start * BaseAddrFactor]

\* the WeightLoader after its constructor; core is the loop variable of the
\* load loop (the next core to be written)
WeightLoader(base_addr_start, per_core_stride, num_cores, neurons_per_core) ==
    [base_addr_start_ |-> base_addr_start,
     per_core_stride_ |-> per_core_stride,
     num_cores_ |-> num_cores,
     neurons_per_core_ |-> neurons_per_core,
     row_major_ |-> TRUE,
     core |-> 0]

\* the address issueWritesForCoreFloats writes cell (pre, post) of a core to
loaderAddr(l, c, pre, post) ==
    l.base_addr_start_ + c * l.per_core_stride_
        + (pre * l.neurons_per_core_ + post) * BytesPerFloat

\* the float written to cell (pre, post): its place in the core's file
loaderVal(l, c, pre, post) ==
    [file |-> c,
     index |-> IF l.row_major_ THEN pre * l.neurons_per_core_ + post
               ELSE pre + post * l.neurons_per_core_]

\* issueWritesForCoreFloats: the cells of core c in loop order, later writes
\* over earlier ones
RECURSIVE issueWritesFrom(_, _, _, _)
issueWritesFrom(mem, l, c, idx) ==
    IF idx >= l.neurons_per_core_ * l.neurons_per_core_ THEN mem
    ELSE LET pre == idx \div l.neurons_per_core_
             post == idx % l.neurons_per_core_
             addr == loaderAddr(l, c, pre, post)
         IN  issueWritesFrom(
                [a \in (DOMAIN mem) \cup {addr} |->
                    IF a = addr THEN loaderVal(l, c, pre, post) ELSE mem[a]],
                l, c, idx + 1)

issueWritesForCoreFloats(mem, l, c) == issueWritesFrom(mem, l, c, 0)

\* the address at which the core reads w[pre, post]: inside the read it issues
requestAddr(pmr) == pmr.address + (pmr.cb_post - pmr.post_start) * BytesPerFloat

\* One core of one tile, and the loader set up for that tile: its block for
\* core i starts where initializeProcessingUnits puts the base_addr of core i.
AddrInit ==
    /\ \E node_id \in 0..(MaxTiles - 1), nc \in 1..MaxCoresPerTile, npc \in 1..MaxNPC :
          \E i \in 0..(nc - 1), mode \in {"single", "cacheline", "row"} :
              /\ num_cores_ = nc
              /\ core = SnnPESubComponent(
                    [initializeProcessingUnits(node_id, nc, npc, node_id * nc * npc, i)
                        EXCEPT !.merge_read_cacheline = (mode = "cacheline"),
                               !.merge_read_row = (mode = "row")])
              /\ weight_loader = WeightLoader(node_id * nc * npc * BaseAddrFactor,
                                              npc * BaseAddrFactor, nc, npc)
    /\ core_log = << >>
    /\ fire_log = << >>
    /\ memory = << >>
    /\ optimized_ring_ = nullptr
    /\ send_log = << >>
    /\ recv_log = << >>
    /\ tick_moves = << >>
    /\ current_cycle_ = 0
    /\ core_spikes = << >>
    /\ deleted_spikes = {}
    /\ spikes_routed = 0
    /\ NoPE
    /\ NoNet
    /\ NoLegacy
    /\ NoSnnPE

\* the loader writes the weights of its next core
IssueWritesForCoreFloats ==
    /\ weight_loader.core < weight_loader.num_cores_
    /\ memory' = issueWritesForCoreFloats(memory, weight_loader, weight_loader.core)
    /\ weight_loader' = [weight_loader EXCEPT !.core = @ + 1]
    /\ UNCHANGED <<coreVars, ringVars, tileVars, peVars, netVars, legacyVars, snnPEVars>>

\* the core asks for w[pre, post] of its own neurons_per_core x neurons_per_core block
RequestWeight ==
    /\ core.count_memory_requests_ < MaxReads
    /\ \E pre, post \in 0..(weight_loader.neurons_per_core_ - 1) :
          LET r == requestWeight([core |-> core, log |-> << >>], pre, post,
                                 [kind |-> "delayed"])
          IN  core' = r.core /\ core_log' = r.log /\ UNCHANGED fire_log
    /\ UNCHANGED <<ringVars, tileVars, loaderVars, peVars, netVars, legacyVars, snnPEVars>>

AddrNext == IssueWritesForCoreFloats \/ RequestWeight

AddrSpec == AddrInit /\ [][AddrNext]_vars

\* ---- SpikeEvent on the inter-tile paths -----------------------------------------
\* SpikeEvent(id, dest_n, dest_node_id, w, ts), the network constructor; hop_count
\* has the default member initializer 0.  A weight is a double, written as a
\* whole number of 2^-25: WeightOne is 1.0.
NetworkSpikeEvent(id, dest_n, dest_node_id, w, ts) ==
    [neuron_id |-> id, timestamp |-> ts, hop_count |-> 0,
     dest_neuron |-> dest_n, dest_node |-> dest_node_id, weight |-> w]

isExpired(spike_event) == spike_event.hop_count >= MAX_HOPS

incrementHopCount(spike_event) == [spike_event EXCEPT !.hop_count = @ + 1]

\* double -> float for a weight in [1.0, 2.0): a float has 23 fraction bits, so
\* the value is rounded to a multiple of 2^-23 = FloatStep units, ties to even
floatCast(w) ==
    LET q == w \div FloatStep
        r == w % FloatStep
    IN  IF 2 * r < FloatStep THEN q * FloatStep
        ELSE IF 2 * r > FloatStep THEN (q + 1) * FloatStep
        ELSE IF q % 2 = 0 THEN q * FloatStep ELSE (q + 1) * FloatStep

\* ---- SimpleNetwork (merlin.linkcontrol) as the NIC sees it ---------------------
\* credits: free flits of the output buffer; packets: the requests put on the
\* mesh, in order; link: the events sent on a direct or legacy output link
SimpleNetwork(credits) == [credits |-> credits, packets |-> << >>, link |-> << >>]

spaceToSend(net, flits) == net.credits >= flits

\* send(req, vn): refused without space for the whole request
send(net, req) ==
    IF spaceToSend(net, req.size_in_flits)
    THEN [ok |-> TRUE,
          net |-> [net EXCEPT !.credits = @ - req.size_in_flits,
                              !.packets = Append(@, req)]]
    ELSE [ok |-> FALSE, net |-> net]

\* ---- SnnNIC ---------------------------------------------------------------------
SnnNIC(node_id, use_direct_link) ==
    [class |-> "SnnNIC", node_id |-> node_id, use_direct_link |-> use_direct_link,
     output_buf_size |-> MaxNetFlits, pending_spikes |-> << >>]

\* createNetworkRequest: the SpikePayload holds four fields, the weight as a
\* float; the destination node travels as req->dest.  of_spike is history: the
\* event the request was made from.
createNetworkRequest(n, spike_event, dest_node) ==
    [dest |-> dest_node, src |-> n.node_id, vn |-> 0, size_in_flits |-> PacketFlits,
     payload |-> [src_neuron_id |-> spike_event.neuron_id,
                  dest_neuron_id |-> spike_event.dest_neuron,
                  timestamp |-> spike_event.timestamp,
                  weight |-> floatCast(spike_event.weight)],
     of_spike |-> spike_event]

\* extractSpikeEvent: a default-constructed SpikeEvent filled from the payload
\* and req->dest
extractSpikeEvent(req) ==
    [NetworkSpikeEvent(0, 0, 0, 0, 0) EXCEPT
        !.neuron_id = req.payload.src_neuron_id,
        !.dest_neuron = req.payload.dest_neuron_id,
        !.timestamp = req.payload.timestamp,
        !.weight = req.payload.weight,
        !.dest_node = req.dest]

\* ---- MultiCorePE: dispatch between cores, ring and NIC ---------------------------
\* The handlers below work on s = [pe, cycle, pool, t, ring, send_log, recv, moves,
\* nic, net, log]: the tile's fields with current_cycle_, the SpikeEvent objects,
\* the core slots with the deleted spikes, the ring with its histories, the NIC,
\* the network behind it and the history of the running call.
MultiCorePE(node_id, num_cores, neurons_per_core, global_neuron_base, output_link, test) ==
    [node_id_ |-> node_id, neurons_per_core_ |-> neurons_per_core,
     total_neurons_ |-> num_cores * neurons_per_core,
     global_neuron_base_ |-> global_neuron_base,
     external_spike_queue_ |-> << >>,
     external_spike_output_link_ |-> output_link,
     test_injected_ |-> FALSE,
     enable_test_traffic_ |-> test.enable_test_traffic,
     test_target_node_ |-> test.test_target_node,
     test_period_ |-> test.test_period,
     test_spikes_per_burst_ |-> test.test_spikes_per_burst,
     test_max_spikes_ |-> test.test_max_spikes,
     test_cycle_counter_ |-> 0, test_spikes_sent_ |-> 0,
     hung |-> FALSE,      \* clockTick is in a loop it never leaves
     spikes_in |-> 0,     \* history: spikes that entered the tile so far
     from_nic |-> {},     \* history: the spikes the NIC gave to handleExternalSpike
     expired_in |-> {}]   \* history: the spikes that were expired when they arrived

\* new SpikeEvent(...): the pointer is the index of the object in the pool
newSpike(s, spike_event) == [s EXCEPT !.pool = Append(@, spike_event)]

lastSpike(s) == Len(s.pool)

logged(s, entry) == [s EXCEPT !.log = Append(@, entry)]

determineTargetUnit(p, neuron_id) ==
    LET local_neuron_id == neuron_id - p.global_neuron_base_
    IN  IF local_neuron_id < 0 \/ local_neuron_id >= p.total_neurons_ THEN -1
        ELSE LET target_unit == local_neuron_id \div p.neurons_per_core_
             IN  IF target_unit >= 0 /\ target_unit < num_cores_ THEN target_unit ELSE -1

deliverToCore(s, core_id, spike) ==
    logged([s EXCEPT !.t = deliverSpikeToCore(s.t, core_id, spike)],
           [op |-> "deliverSpikeToCore", core |-> core_id, spike |-> spike])

deleteSpike(s, spike) ==
    logged([s EXCEPT !.t.deleted = @ \cup {spike}], [op |-> "delete", spike |-> spike])

\* routeInternalSpike: direct delivery to the source core itself, the ring
\* otherwise; a spike the ring refuses is deleted
routeInternalSpike(s, src_core, dst_core, spike) ==
    LET msg == [RingMessage EXCEPT !.src_unit = src_core, !.dst_unit = dst_core,
                                   !.timestamp = s.cycle, !.payload = spike]
    IN  IF src_core < 0 \/ src_core >= num_cores_ \/ dst_core < 0 \/ dst_core >= num_cores_
        THEN deleteSpike(s, spike)
        ELSE IF num_cores_ <= 1 \/ src_core = dst_core
        THEN deliverToCore(s, dst_core, spike)
        ELSE IF s.ring # nullptr
        THEN LET res == sendMessage(s.ring, src_core, dst_core, msg, 1)
                 sent == logged([s EXCEPT !.ring = res.ring,
                                          !.send_log = Append(@, SendRecord(s.ring, spike,
                                                                 src_core, dst_core, 1, res.ok))],
                                [op |-> "sendMessage", src |-> src_core, dst |-> dst_core,
                                 spike |-> spike, ok |-> res.ok])
             IN  IF res.ok THEN sent ELSE deleteSpike(sent, spike)
        ELSE deleteSpike(s, spike)

\* handleExternalSpike, the NIC's receive callback: the spike joins the queue
\* that clockTick drains
handleExternalSpike(s, spike) ==
    logged([s EXCEPT !.pe.external_spike_queue_ = Append(@, spike),
                     !.pe.from_nic = @ \cup {spike}],
           [op |-> "handleExternalSpike", spike |-> spike])

\* SnnNIC::sendSpike.  A spike to this node whose source and destination neuron
\* agree goes to the spike handler; direct-link mode sends a copy of the event;
\* SimpleNetwork mode sends a request, or keeps the spike when there is no space.
SnnNIC_sendSpike(s, spike) ==
    LET spike_event == s.pool[spike]
        n == s.nic
        dest_node == spike_event.dest_node
        called == logged(s, [op |-> "sendSpike", spike |-> spike])
    IN  IF dest_node = n.node_id /\ spike_event.neuron_id = spike_event.dest_neuron
        THEN handleExternalSpike(called, spike)
        ELSE IF n.use_direct_link
        THEN LET copied == newSpike(called, spike_event)
             IN  logged([copied EXCEPT !.net.link = Append(@, lastSpike(copied))],
                        [op |-> "link", spike |-> lastSpike(copied), of |-> spike])
        ELSE LET req == createNetworkRequest(n, spike_event, dest_node)
                 res == send(called.net, req)
             IN  IF res.ok
                 THEN logged([called EXCEPT !.net = res.net],
                             [op |-> "send", req |-> req, spike |-> spike])
                 ELSE logged([called EXCEPT !.nic.pending_spikes = Append(@, spike)],
                             [op |-> "pending", spike |-> spike])

\* sendExternalSpike: the self-loop guard, then the NIC, the legacy output link,
\* or nothing
sendExternalSpike(s, spike) ==
    IF s.pool[spike].dest_node = s.pe.node_id_ THEN deleteSpike(s, spike)
    ELSE IF s.nic # nullptr THEN SnnNIC_sendSpike(s, spike)
    ELSE IF s.pe.external_spike_output_link_
    THEN logged([s EXCEPT !.net.link = Append(@, spike)],
                [op |-> "link", spike |-> spike, of |-> spike])
    ELSE deleteSpike(s, spike)

\* sendSpike, called by a core for every spike it emits
sendSpike(s, spike) ==
    LET event == s.pool[spike]
        target_unit == determineTargetUnit(s.pe, event.dest_neuron)
        src_core == determineTargetUnit(s.pe, event.neuron_id)
    IN  IF target_unit >= 0 /\ target_unit < num_cores_
        THEN IF src_core >= 0 /\ src_core < num_cores_
             THEN routeInternalSpike(s, src_core, target_unit, spike)
             ELSE deliverToCore(s, target_unit, spike)
        ELSE sendExternalSpike(s, spike)

\* handleExternalSpikeEvent, the handler of the external spike input link
handleExternalSpikeEvent(s, spike) ==
    IF isExpired(s.pool[spike]) THEN deleteSpike(s, spike)
    ELSE LET hopped == [s EXCEPT !.pool[spike] = incrementHopCount(@)]
             ev == hopped.pool[spike]
             target_unit == determineTargetUnit(s.pe, ev.dest_neuron)
         IN  IF ev.dest_node = s.pe.node_id_
             THEN logged([hopped EXCEPT !.pe.external_spike_queue_ = Append(@, spike)],
                         [op |-> "push", spike |-> spike])
             ELSE IF target_unit >= 0 /\ target_unit < num_cores_
             THEN LET copied == newSpike(hopped,
                                   [NetworkSpikeEvent(ev.neuron_id, ev.dest_neuron, ev.dest_node,
                                                      ev.weight, ev.timestamp)
                                       EXCEPT !.hop_count = ev.hop_count])
                  IN  deleteSpike(deliverToCore(copied, target_unit, lastSpike(copied)), spike)
             ELSE IF s.nic # nullptr THEN sendExternalSpike(hopped, spike)
             ELSE deleteSpike(hopped, spike)

\* a queued spike that SnnNIC::sendSpike hands straight back to
\* handleExternalSpike, which queues it again
requeues(s, spike) ==
    /\ determineTargetUnit(s.pe, s.pool[spike].dest_neuron) < 0
    /\ s.nic # nullptr
    /\ s.pool[spike].dest_node = s.nic.node_id
    /\ s.pool[spike].neuron_id = s.pool[spike].dest_neuron

\* clockTick, step 1: while the external spike queue is not empty, pop a spike,
\* deliver it to the core of its destination neuron or pass it to the NIC.  The
\* loop does not end once every queued spike is one the NIC queues again.
RECURSIVE drainExternalSpikeQueue(_)
drainExternalSpikeQueue(s) ==
    LET queue == s.pe.external_spike_queue_
    IN  IF queue = << >> THEN s
        ELSE IF \A i \in DOMAIN queue : requeues(s, queue[i])
        THEN [s EXCEPT !.pe.hung = TRUE]
        ELSE LET spike == Head(queue)
                 popped == [s EXCEPT !.pe.external_spike_queue_ = Tail(@)]
                 target_unit == determineTargetUnit(s.pe, s.pool[spike].dest_neuron)
             IN  drainExternalSpikeQueue(
                    IF target_unit >= 0 /\ target_unit < num_cores_
                    THEN deliverToCore(popped, target_unit, spike)
                    ELSE IF s.nic # nullptr THEN SnnNIC_sendSpike(popped, spike)
                    ELSE deleteSpike(popped, spike))

\* the burst of generateTestTraffic: spikes i..spikes_to_send-1
RECURSIVE emitTestSpikes(_, _, _)
emitTestSpikes(s, i, spikes_to_send) ==
    IF i >= spikes_to_send THEN s
    ELSE LET p == s.pe
             src_neuron == p.node_id_ * p.total_neurons_ + (i % p.total_neurons_)
             dst_neuron == p.test_target_node_ * p.total_neurons_ + (i % p.total_neurons_)
             created == newSpike(s, NetworkSpikeEvent(src_neuron, dst_neuron,
                                       p.test_target_node_, WeightOne, s.cycle))
             test_spike == lastSpike(created)
             sent == sendExternalSpike(
                        logged(created, [op |-> "test_spike", spike |-> test_spike]),
                        test_spike)
         IN  emitTestSpikes([sent EXCEPT !.pe.test_spikes_sent_ = @ + 1], i + 1, spikes_to_send)

\* a generator whose bursts ignore what is left of test_max_spikes
generateTestTrafficUncapped(s) ==
    LET p == s.pe
        counter == p.test_cycle_counter_ + 1
    IN  IF p.test_max_spikes_ > 0 /\ p.test_spikes_sent_ >= p.test_max_spikes_ THEN s
        ELSE IF p.test_period_ >= 0 /\ counter >= p.test_period_
        THEN emitTestSpikes([s EXCEPT !.pe.test_cycle_counter_ = 0], 0, p.test_spikes_per_burst_)
        ELSE [s EXCEPT !.pe.test_cycle_counter_ = counter]

\* generateTestTraffic.  test_period_ is compared as uint64_t: a negative period
\* is a huge one.
generateTestTraffic(s) ==
    LET p == s.pe
        counter == p.test_cycle_counter_ + 1
        spikes_to_send == IF p.test_max_spikes_ > 0
                          THEN Min({p.test_spikes_per_burst_,
                                    p.test_max_spikes_ - p.test_spikes_sent_})
                          ELSE p.test_spikes_per_burst_
    IN  IF p.test_max_spikes_ > 0 /\ p.test_spikes_sent_ >= p.test_max_spikes_ THEN s
        ELSE IF p.test_period_ >= 0 /\ counter >= p.test_period_
        THEN emitTestSpikes([s EXCEPT !.pe.test_cycle_counter_ = 0], 0, spikes_to_send)
        ELSE [s EXCEPT !.pe.test_cycle_counter_ = counter]

\* clockTick step 0: the cross-core test spike of cycle 5000
injectTestSpike(s, current_cycle) ==
    IF ~s.pe.test_injected_ /\ num_cores_ > 1 /\ current_cycle = TestInjectCycle
    THEN LET created == newSpike(s, NetworkSpikeEvent(0, s.pe.neurons_per_core_, 0,
                                       WeightOne \div 2, current_cycle))
             test_spike == lastSpike(created)
             src_core == determineTargetUnit(s.pe, 0)
             dst_core == determineTargetUnit(s.pe, s.pe.neurons_per_core_)
             injected == [created EXCEPT !.pe.test_injected_ = TRUE]
         IN  IF src_core >= 0 /\ dst_core >= 0 /\ src_core # dst_core
             THEN routeInternalSpike(injected, src_core, dst_core, test_spike)
             ELSE deleteSpike(injected, test_spike)
    ELSE s

\* clockTick step 3: the ring's tick and the cross-core routing after it
tickInternalRing(s, current_cycle) ==
    IF s.ring # nullptr
    THEN LET ticked == tick(s.ring, current_cycle)
             d == handleOptimizedCrossCoreRouting(
                     [ring |-> ticked.ring, t |-> s.t, recv |-> s.recv], 0)
         IN  [s EXCEPT !.ring = d.ring, !.t = d.t, !.recv = d.recv, !.moves = ticked.moves]
    ELSE s

\* MultiCorePE::clockTick.  The statistics refresh and the controller's tick
\* change no field the handlers read.
MultiCorePE_clockTick(s, current_cycle) ==
    LET drained == drainExternalSpikeQueue(
                       injectTestSpike([s EXCEPT !.cycle = current_cycle], current_cycle))
        routed == tickInternalRing(drained, current_cycle)
    IN  IF drained.pe.hung THEN drained
        ELSE IF s.pe.enable_test_traffic_ THEN generateTestTraffic(routed)
        ELSE routed

\* SnnNIC::spaceAvailable, the send notification of the network: while a spike
\* is pending and the network has space for one flit, pop the head and send it;
\* a spike that still does not fit is pushed again, at the back
RECURSIVE spaceAvailable(_)
spaceAvailable(s) ==
    IF s.nic.pending_spikes # << >> /\ spaceToSend(s.net, 1)
    THEN LET spike == Head(s.nic.pending_spikes)
             popped == [s EXCEPT !.nic.pending_spikes = Tail(@)]
             req == createNetworkRequest(s.nic, s.pool[spike], s.pool[spike].dest_node)
             res == send(popped.net, req)
         IN  IF res.ok
             THEN spaceAvailable(logged([popped EXCEPT !.net = res.net],
                                        [op |-> "send", req |-> req, spike |-> spike]))
             ELSE logged([popped EXCEPT !.nic.pending_spikes = Append(@, spike)],
                         [op |-> "pending", spike |-> spike])
    ELSE s

\* SnnNIC::handleIncoming: the request the network delivers becomes a new
\* SpikeEvent for the spike handler
handleIncoming(s, req) ==
    LET created == newSpike(logged(s, [op |-> "recv", req |-> req]), extractSpikeEvent(req))
    IN  handleExternalSpike(created, lastSpike(created))

\* SnnNIC::handleDirectSpikeEvent: the event of the direct link goes to the
\* spike handler as it is
handleDirectSpikeEvent(s, spike) == handleExternalSpike(s, spike)

\* ---- the tile under its configurations ------------------------------------------
\* the test-traffic parameters at their defaults: no test traffic
NoTestTraffic ==
    [enable_test_traffic |-> FALSE, test_target_node |-> 0, test_period |-> 100,
     test_spikes_per_burst |-> 4, test_max_spikes |-> 10]

\* the NICs a tile is configured with, and the send credits behind them
NicConfigs(node_id) ==
    {[nic |-> nullptr, output_link |-> l, credits |-> 0] : l \in BOOLEAN}
    \cup {[nic |-> SnnNIC(node_id, TRUE), output_link |-> FALSE, credits |-> 0]}
    \cup {[nic |-> SnnNIC(node_id, FALSE), output_link |-> FALSE, credits |-> c] :
             c \in {0, MaxNetFlits}}

\* tiles that dispatch spikes of their cores and of the outside
DispatchConfigs ==
    {[node_id |-> node_id, num_cores |-> nc, neurons_per_core |-> MaxNPC,
      nic |-> n.nic, output_link |-> n.output_link, credits |-> n.credits,
      test |-> NoTestTraffic] :
        node_id \in {MaxTiles - 1}, nc \in 1..MaxCoresPerTile, n \in NicConfigs(0)}

\* single-core tiles that generate test traffic
TestConfigs ==
    {[node_id |-> 0, num_cores |-> 1, neurons_per_core |-> MaxNPC,
      nic |-> SnnNIC(0, FALSE), output_link |-> FALSE, credits |-> MaxNetFlits,
      test |-> [enable_test_traffic |-> TRUE, test_target_node |-> target,
                test_period |-> period, test_spikes_per_burst |-> burst,
                test_max_spikes |-> max]] :
        target \in 0..(MaxTiles - 1), period \in 1..MaxTestPeriod,
        burst \in 1..MaxTestBurst, max \in 0..MaxTestSpikes}

PEInit ==
    /\ \E cfg \in DispatchConfigs \cup TestConfigs :
          /\ num_cores_ = cfg.num_cores
          /\ optimized_ring_ = initializeInternalRing(cfg.num_cores, MaxCredits)
          /\ recv_log = [i \in 0..(cfg.num_cores - 1) |-> << >>]
          /\ core_spikes = [i \in 0..(cfg.num_cores - 1) |-> << >>]
          /\ pe = MultiCorePE(cfg.node_id, cfg.num_cores, cfg.neurons_per_core,
                              cfg.node_id * cfg.num_cores * cfg.neurons_per_core,
                              cfg.output_link, cfg.test)
          /\ external_nic_ = IF cfg.nic = nullptr THEN nullptr
                             ELSE [cfg.nic EXCEPT !.node_id = cfg.node_id]
          /\ network = SimpleNetwork(cfg.credits)
    /\ spike_pool = << >>
    /\ pe_log = << >>
    /\ send_log = << >>
    /\ tick_moves = << >>
    /\ current_cycle_ = 0
    /\ deleted_spikes = {}
    /\ spikes_routed = 0
    /\ core = nullptr
    /\ core_log = << >>
    /\ fire_log = << >>
    /\ weight_loader = nullptr
    /\ memory = << >>
    /\ NoNet
    /\ NoLegacy
    /\ NoSnnPE

\* the tile's state as the handlers take it, with the history of a new call
PEState(handler) ==
    [pe |-> pe, cycle |-> current_cycle_, pool |-> spike_pool,
     t |-> [cores |-> core_spikes, deleted |-> deleted_spikes],
     ring |-> optimized_ring_, send_log |-> send_log, recv |-> recv_log,
     moves |-> tick_moves, nic |-> external_nic_, net |-> network,
     log |-> <<[op |-> "call", handler |-> handler]>>]

\* the state a handler leaves behind
PEAssign(s) ==
    /\ pe' = s.pe
    /\ current_cycle_' = s.cycle
    /\ spike_pool' = s.pool
    /\ core_spikes' = s.t.cores
    /\ deleted_spikes' = s.t.deleted
    /\ optimized_ring_' = s.ring
    /\ send_log' = s.send_log
    /\ recv_log' = s.recv
    /\ tick_moves' = s.moves
    /\ external_nic_' = s.nic
    /\ network' = s.net
    /\ pe_log' = s.log
    /\ UNCHANGED <<num_cores_, spikes_routed, coreVars, loaderVars, netVars, legacyVars, snnPEVars>>

\* the spikes that enter a tile: from a neuron of the tile or of another one, to
\* the first or last neuron of the tile or to one beyond it, for any tile
SpikeInputs ==
    LET first == pe.global_neuron_base_
        beyond == pe.global_neuron_base_ + pe.total_neurons_
    IN  {NetworkSpikeEvent(src, dst, node, WeightOne, 0) :
            src \in {first, beyond}, dst \in {first, beyond - 1, beyond},
            node \in 0..(MaxTiles - 1)}

\* the hop counts of spikes that come from other tiles
HopCounts == {0, MAX_HOPS - 1, MAX_HOPS}

\* the spikes that other tiles send: from a neuron beyond this tile, to a
\* neuron of the tile, to the sending neuron or to another one beyond the tile
ForwardedInputs ==
    LET first == pe.global_neuron_base_
        beyond == pe.global_neuron_base_ + pe.total_neurons_
    IN  {[NetworkSpikeEvent(beyond, dst, node, WeightOne, 0) EXCEPT !.hop_count = h] :
            dst \in {first, beyond - 1, beyond, beyond + 1},
            node \in 0..(MaxTiles - 1), h \in HopCounts}

\* the state with one more spike from outside, as the first call of the handler
entered(handler, spike_event) ==
    LET s == newSpike([PEState(handler) EXCEPT !.pe.spikes_in = @ + 1], spike_event)
    IN  [s EXCEPT !.log[1] = [op |-> "call", handler |-> handler,
                              spike |-> lastSpike(s), event |-> spike_event],
                  !.pe.expired_in = IF isExpired(spike_event) THEN @ \cup {lastSpike(s)}
                                    ELSE @]

PERunning == pe # nullptr /\ ~pe.hung

\* how many spikes enter the tile in one behaviour: the test-traffic tiles are
\* left to their generator
SpikeBudget == IF pe.enable_test_traffic_ THEN 0 ELSE MaxPESpikes

\* a core emits a spike
SendSpike ==
    /\ PERunning
    /\ pe.spikes_in < SpikeBudget
    /\ \E ev \in SpikeInputs :
          LET s == entered("sendSpike", ev)
          IN  PEAssign(sendSpike(s, lastSpike(s)))

\* a spike arrives on the external spike input link
HandleExternalSpikeEvent ==
    /\ PERunning
    /\ pe.spikes_in < SpikeBudget
    /\ \E ev \in ForwardedInputs :
          LET s == entered("handleExternalSpikeEvent", ev)
          IN  PEAssign(handleExternalSpikeEvent(s, lastSpike(s)))

\* the mesh delivers a request to the NIC: one that a NIC of another tile made
\* for this tile, or one of this tile's own that is addressed to this tile
HandleIncoming ==
    /\ PERunning
    /\ pe.spikes_in < SpikeBudget
    /\ external_nic_ # nullptr
    /\ ~external_nic_.use_direct_link
    /\ \E req \in {createNetworkRequest(SnnNIC((pe.node_id_ + 1) % MaxTiles, FALSE),
                                        ev, pe.node_id_) :
                      ev \in {e \in ForwardedInputs : e.dest_node = pe.node_id_}}
                  \cup {network.packets[i] : i \in {j \in DOMAIN network.packets :
                                                       network.packets[j].dest = pe.node_id_}} :
          PEAssign(handleIncoming([PEState("handleIncoming") EXCEPT !.pe.spikes_in = @ + 1], req))

\* an event arrives on the NIC's direct link
HandleDirectSpikeEvent ==
    /\ PERunning
    /\ pe.spikes_in < SpikeBudget
    /\ external_nic_ # nullptr
    /\ external_nic_.use_direct_link
    /\ \E ev \in ForwardedInputs :
          LET s == entered("handleDirectSpikeEvent", ev)
          IN  PEAssign(handleDirectSpikeEvent(s, lastSpike(s)))

PEClockTick ==
    /\ PERunning
    /\ current_cycle_ < (IF pe.enable_test_traffic_ THEN MaxPECycles ELSE MaxCycles)
    /\ PEAssign(MultiCorePE_clockTick(PEState("clockTick"), current_cycle_ + 1))

\* the network returns send credits and notifies the NIC
SpaceAvailable ==
    /\ PERunning
    /\ external_nic_ # nullptr
    /\ ~external_nic_.use_direct_link
    /\ \E credits \in 1..(MaxNetFlits - network.credits) :
          PEAssign(spaceAvailable([PEState("spaceAvailable") EXCEPT !.net.credits = @ + credits]))

PENext ==
    \/ SendSpike
    \/ HandleExternalSpikeEvent
    \/ HandleIncoming
    \/ HandleDirectSpikeEvent
    \/ PEClockTick
    \/ SpaceAvailable

PESpec == PEInit /\ [][PENext]_vars

\* ---- SpikeEvent: the three ways across a boundary -------------------------------
\* SpikeEvent::serialize_order packs five members; unpacking fills a
\* default-constructed SpikeEvent, whose hop_count is the member initializer
SpikeEvent_pack(spike_event) ==
    <<spike_event.neuron_id, spike_event.timestamp, spike_event.dest_neuron,
      spike_event.dest_node, spike_event.weight>>

SpikeEvent_unpack(buf) ==
    [NetworkSpikeEvent(0, 0, 0, 0, 0) EXCEPT
        !.neuron_id = buf[1], !.timestamp = buf[2], !.dest_neuron = buf[3],
        !.dest_node = buf[4], !.weight = buf[5]]

\* SpikeEventWrapper::serialize_order: has_spike and five values of the wrapped
\* event; unpacking builds a SpikeEvent with the network constructor
SpikeEventWrapper_pack(spike_data) ==
    <<TRUE, spike_data.neuron_id, spike_data.dest_neuron, spike_data.dest_node,
      spike_data.weight, spike_data.timestamp>>

SpikeEventWrapper_unpack(buf) ==
    IF buf[1] THEN NetworkSpikeEvent(buf[2], buf[3], buf[4], buf[5], buf[6])
    ELSE nullptr

\* the events of the round trips
SerInputs ==
    {[NetworkSpikeEvent(src, dst, node, w, ts) EXCEPT !.hop_count = h] :
        src \in 0..(MaxNeurons - 1), dst \in 0..(MaxNeurons - 1), node \in 0..(MaxTiles - 1),
        w \in {WeightOne, WeightOne + 1}, ts \in 0..1, h \in {0, 1, MAX_HOPS}}

SerInit ==
    /\ \E spike_event \in SerInputs : spike_pool = <<spike_event>>
    /\ pe_log = << >>
    /\ pe = nullptr
    /\ external_nic_ = nullptr
    /\ network = nullptr
    /\ optimized_ring_ = nullptr
    /\ send_log = << >>
    /\ recv_log = << >>
    /\ tick_moves = << >>
    /\ num_cores_ = 0
    /\ current_cycle_ = 0
    /\ core_spikes = << >>
    /\ deleted_spikes = {}
    /\ spikes_routed = 0
    /\ core = nullptr
    /\ core_log = << >>
    /\ fire_log = << >>
    /\ weight_loader = nullptr
    /\ memory = << >>
    /\ NoNet
    /\ NoLegacy
    /\ NoSnnPE

\* one round trip of the event: what went in and what came out
RoundTrip(way, out) ==
    /\ pe = nullptr
    /\ Len(spike_pool) = 1
    /\ pe_log = << >>
    /\ pe_log' = <<[op |-> way, in |-> spike_pool[1], out |-> out]>>
    /\ UNCHANGED <<netVars, legacyVars, snnPEVars, ringVars, tileVars, coreVars, loaderVars, pe, spike_pool,
                   external_nic_, network>>

SerializeEvent == RoundTrip("SpikeEvent", SpikeEvent_unpack(SpikeEvent_pack(spike_pool[1])))

SerializeWrapper ==
    RoundTrip("SpikeEventWrapper", SpikeEventWrapper_unpack(SpikeEventWrapper_pack(spike_pool[1])))

\* the NIC of any node packs the event for its destination node
Packetize ==
    \E node_id \in 0..(MaxTiles - 1) :
        RoundTrip("SnnNIC",
                  extractSpikeEvent(createNetworkRequest(SnnNIC(node_id, FALSE), spike_pool[1],
                                                         spike_pool[1].dest_node)))

SerNext == SerializeEvent \/ SerializeWrapper \/ Packetize

SerSpec == SerInit /\ [][SerNext]_vars

\* ---- the three network interfaces of a tile ---------------------------------------
\* MultiCorePERouterInterface: the constructor registers a receive notification
\* only; send_queue_ holds the spikes the router refused
MultiCorePERouterInterface(node_id) ==
    [class |-> "MultiCorePERouterInterface", node_id |-> node_id, use_direct_link |-> FALSE,
     output_buf_size |-> MaxNetFlits, send_queue_ |-> << >>]

\* SnnNetworkAdapter with enable_merlin_router set and use_direct_link cleared
SnnNetworkAdapter(node_id) ==
    [class |-> "SnnNetworkAdapter", node_id |-> node_id, use_direct_link |-> FALSE,
     output_buf_size |-> MaxNetFlits, pending_spikes |-> << >>, packets_dropped |-> 0]

\* convertSpikeToRequest and SnnNetworkAdapter::createNetworkRequest: the
\* payload is a SpikeEventWrapper around the event
convertSpikeToRequest(n, spike_event) ==
    [dest |-> spike_event.dest_node, src |-> n.node_id, vn |-> 0,
     size_in_flits |-> PacketFlits, payload |-> SpikeEventWrapper_pack(spike_event),
     of_spike |-> spike_event]

\* MultiCorePERouterInterface::sendSpike: a request the router refuses is
\* deleted and the spike joins send_queue_.  Nothing in the class takes a spike
\* out of send_queue_ again before the destructor: processSendQueue has no caller.
MultiCorePERouterInterface_sendSpike(s, spike) ==
    LET called == logged(s, [op |-> "sendSpike", spike |-> spike])
        req == convertSpikeToRequest(s.nic, s.pool[spike])
        res == send(called.net, req)
    IN  IF res.ok
        THEN logged([called EXCEPT !.net = res.net], [op |-> "send", req |-> req, spike |-> spike])
        ELSE logged([called EXCEPT !.nic.send_queue_ = Append(@, spike)],
                    [op |-> "pending", spike |-> spike])

\* sendViaMerlinRouter: a request that does not fit is deleted and counted
sendViaMerlinRouter(s, spike, dest_node) ==
    LET req == [convertSpikeToRequest(s.nic, s.pool[spike]) EXCEPT !.dest = dest_node]
        res == send(s.net, req)
    IN  IF spaceToSend(s.net, req.size_in_flits) /\ res.ok
        THEN logged([s EXCEPT !.net = res.net], [op |-> "send", req |-> req, spike |-> spike])
        ELSE logged([s EXCEPT !.nic.packets_dropped = @ + 1], [op |-> "drop", spike |-> spike])

\* SnnNetworkAdapter::sendSpike: the spike handler for a spike to this node,
\* routeSpike (here: the Merlin router) for any other
SnnNetworkAdapter_sendSpike(s, spike) ==
    LET called == logged(s, [op |-> "sendSpike", spike |-> spike])
        dest_node == s.pool[spike].dest_node
    IN  IF dest_node = s.nic.node_id THEN handleExternalSpike(called, spike)
        ELSE sendViaMerlinRouter(called, spike, dest_node)

\* SnnNetworkAdapter::spaceAvailable: as SnnNIC's, over the adapter's own
\* pending_spikes
RECURSIVE SnnNetworkAdapter_spaceAvailable(_)
SnnNetworkAdapter_spaceAvailable(s) ==
    IF s.nic.pending_spikes # << >> /\ spaceToSend(s.net, 1)
    THEN LET spike == Head(s.nic.pending_spikes)
             popped == [s EXCEPT !.nic.pending_spikes = Tail(@)]
             req == convertSpikeToRequest(s.nic, s.pool[spike])
             res == send(popped.net, req)
         IN  IF res.ok
             THEN SnnNetworkAdapter_spaceAvailable(
                      logged([popped EXCEPT !.net = res.net],
                             [op |-> "send", req |-> req, spike |-> spike]))
             ELSE logged([popped EXCEPT !.nic.pending_spikes = Append(@, spike)],
                         [op |-> "pending", spike |-> spike])
    ELSE s

\* SnnInterface::sendSpike, virtual
SnnInterface_sendSpike(s, spike) ==
    CASE s.nic.class = "SnnNIC" -> SnnNIC_sendSpike(s, spike)
      [] s.nic.class = "MultiCorePERouterInterface" -> MultiCorePERouterInterface_sendSpike(s, spike)
      [] s.nic.class = "SnnNetworkAdapter" -> SnnNetworkAdapter_sendSpike(s, spike)

\* the send notification each class registered with the network
notifyOnSend(s) ==
    CASE s.nic.class = "SnnNIC" -> spaceAvailable(s)
      [] s.nic.class = "MultiCorePERouterInterface" -> s
      [] s.nic.class = "SnnNetworkAdapter" -> SnnNetworkAdapter_spaceAvailable(s)

\* the spikes that wait in the interface
sendQueue(n) ==
    IF n.class = "MultiCorePERouterInterface" THEN n.send_queue_ ELSE n.pending_spikes

\* ---- a network interface on the mesh ----------------------------------------------
\* node 0 with each of the three interfaces; the output buffer of its link
\* control is empty at the start
NicClasses ==
    {SnnNIC(0, FALSE), MultiCorePERouterInterface(0), SnnNetworkAdapter(0)}

NicInit ==
    /\ external_nic_ \in NicClasses
    /\ network = SimpleNetwork(MaxNetFlits)
    /\ spike_pool = << >>
    /\ pe_log = << >>
    /\ pe = nullptr
    /\ optimized_ring_ = nullptr
    /\ send_log = << >>
    /\ recv_log = << >>
    /\ tick_moves = << >>
    /\ num_cores_ = 0
    /\ current_cycle_ = 0
    /\ core_spikes = << >>
    /\ deleted_spikes = {}
    /\ spikes_routed = 0
    /\ core = nullptr
    /\ core_log = << >>
    /\ fire_log = << >>
    /\ weight_loader = nullptr
    /\ memory = << >>
    /\ NoNet
    /\ NoLegacy
    /\ NoSnnPE

NicRunning == pe = nullptr /\ external_nic_ # nullptr /\ network # nullptr

NicState(handler) ==
    [pool |-> spike_pool, nic |-> external_nic_, net |-> network,
     log |-> <<[op |-> "call", handler |-> handler]>>]

NicAssign(s) ==
    /\ spike_pool' = s.pool
    /\ external_nic_' = s.nic
    /\ network' = s.net
    /\ pe_log' = s.log
    /\ UNCHANGED <<ringVars, tileVars, coreVars, loaderVars, pe, netVars, legacyVars, snnPEVars>>

\* the spikes a tile hands to its interface: to a neuron of another node,
\* stamped in the order they are handed over
NicInputs(n) ==
    {NetworkSpikeEvent(0, dst, node, WeightOne, Len(spike_pool) + 1) :
        dst \in MaxNPC..(MaxNPC + 1), node \in (0..(MaxTiles - 1)) \ {n.node_id}}

NicSendSpike ==
    /\ NicRunning
    /\ Len(spike_pool) < MaxNicSpikes
    /\ \E spike_event \in NicInputs(external_nic_) :
          LET s == newSpike(NicState("sendSpike"), spike_event)
          IN  NicAssign(SnnInterface_sendSpike(s, lastSpike(s)))

\* the link control sends flits on, gets their credits back and notifies
NicSpaceAvailable ==
    /\ NicRunning
    /\ \E credits \in 1..(external_nic_.output_buf_size - network.credits) :
          NicAssign(notifyOnSend([NicState("spaceAvailable") EXCEPT !.net.credits = @ + credits]))

NicNext == NicSendSpike \/ NicSpaceAvailable

NicSpec == NicInit /\ [][NicNext]_vars

\* the link control keeps draining its output buffer
NicFairSpec == NicSpec /\ WF_vars(NicSpaceAvailable)

\* ---- TopologyHandler: Mesh2D and Torus2D ------------------------------------------
\* initialize: the shape and the coordinates of this node
TopologyHandler(class, width, height, node_id) ==
    [class |-> class, width |-> width, height |-> height, node_id |-> node_id,
     my_x |-> node_id % width, my_y |-> node_id \div width]

nodeToCoord(h, node_id) == [x |-> node_id % h.width, y |-> node_id \div h.width]

coordToNode(h, x, y) == y * h.width + x

abs(x) == IF x < 0 THEN -x ELSE x

\* port ids: the index into port_directions of sendViaMultiPortLink
West == 0
East == 1
South == 2
North == 3
Local == -1

Mesh2DHandler_calculateRouteSwapped(h, dest_node) ==
    LET dest == nodeToCoord(h, dest_node)
    IN  IF dest.x < h.my_x THEN East
        ELSE IF dest.x > h.my_x THEN West
        ELSE IF dest.y < h.my_y THEN South
        ELSE IF dest.y > h.my_y THEN North
        ELSE Local

Mesh2DHandler_calculateRoute(h, dest_node) ==
    LET dest == nodeToCoord(h, dest_node)
    IN  IF dest.x < h.my_x THEN West
        ELSE IF dest.x > h.my_x THEN East
        ELSE IF dest.y < h.my_y THEN South
        ELSE IF dest.y > h.my_y THEN North
        ELSE Local

Mesh2DHandler_calculateHopDistance(h, dest_node) ==
    LET dest == nodeToCoord(h, dest_node)
    IN  abs(dest.x - h.my_x) + abs(dest.y - h.my_y)

\* getNeighbors, by port: the node behind each port, -1 where the mesh ends
Mesh2DHandler_getNeighbors(h) ==
    [port \in West..North |->
        CASE port = West -> IF h.my_x > 0 THEN coordToNode(h, h.my_x - 1, h.my_y) ELSE -1
          [] port = East -> IF h.my_x < h.width - 1 THEN coordToNode(h, h.my_x + 1, h.my_y) ELSE -1
          [] port = South -> IF h.my_y > 0 THEN coordToNode(h, h.my_x, h.my_y - 1) ELSE -1
          [] port = North -> IF h.my_y < h.height - 1 THEN coordToNode(h, h.my_x, h.my_y + 1) ELSE -1]

calculateTorusDistanceNoWrap(coord1, coord2, dimension_size) == coord2 - coord1

\* calculateTorusDistance: the signed shorter way round; the unsigned
\* differences plus dimension_size do not leave the 32-bit range
calculateTorusDistance(coord1, coord2, dimension_size) ==
    LET forward_dist == (coord2 - coord1 + dimension_size) % dimension_size
        backward_dist == (coord1 - coord2 + dimension_size) % dimension_size
    IN  IF forward_dist <= backward_dist THEN forward_dist ELSE -backward_dist

Torus2DHandler_calculateRoute(h, dest_node) ==
    LET dest == nodeToCoord(h, dest_node)
        x_dist == calculateTorusDistance(h.my_x, dest.x, h.width)
        y_dist == calculateTorusDistance(h.my_y, dest.y, h.height)
    IN  IF x_dist # 0 THEN (IF x_dist > 0 THEN East ELSE West)
        ELSE IF y_dist # 0 THEN (IF y_dist > 0 THEN North ELSE South)
        ELSE Local

Torus2DHandler_calculateHopDistance(h, dest_node) ==
    LET dest == nodeToCoord(h, dest_node)
    IN  abs(calculateTorusDistance(h.my_x, dest.x, h.width))
        + abs(calculateTorusDistance(h.my_y, dest.y, h.height))

Torus2DHandler_getNeighbors(h) ==
    [port \in West..North |->
        CASE port = West -> coordToNode(h, (h.my_x + h.width - 1) % h.width, h.my_y)
          [] port = East -> coordToNode(h, (h.my_x + 1) % h.width, h.my_y)
          [] port = South -> coordToNode(h, h.my_x, (h.my_y + h.height - 1) % h.height)
          [] port = North -> coordToNode(h, h.my_x, (h.my_y + 1) % h.height)]

\* the virtual calls on topology_handler
calculateRoute(h, dest_node) ==
    IF h.class = "Mesh2D" THEN Mesh2DHandler_calculateRoute(h, dest_node)
    ELSE Torus2DHandler_calculateRoute(h, dest_node)

calculateHopDistance(h, dest_node) ==
    IF h.class = "Mesh2D" THEN Mesh2DHandler_calculateHopDistance(h, dest_node)
    ELSE Torus2DHandler_calculateHopDistance(h, dest_node)

getNeighbors(h) ==
    IF h.class = "Mesh2D" THEN Mesh2DHandler_getNeighbors(h) ELSE Torus2DHandler_getNeighbors(h)

\* SnnNetworkAdapter::extractSpikeFromRequest: a new SpikeEvent from the five
\* values of the wrapped event, its hop_count one more than the wrapped one's
extractSpikeFromRequest(req) ==
    LET original_spike == SpikeEventWrapper_unpack(req.payload)
    IN  [NetworkSpikeEvent(original_spike.neuron_id, original_spike.dest_neuron,
                           original_spike.dest_node, original_spike.weight,
                           original_spike.timestamp)
            EXCEPT !.hop_count = original_spike.hop_count + 1]

\* sendViaMultiPortLink: a new SpikeEvent of the same five values goes out
sendViaMultiPortLink(spike_event) ==
    NetworkSpikeEvent(spike_event.neuron_id, spike_event.dest_neuron, spike_event.dest_node,
                      spike_event.weight, spike_event.timestamp)

\* ---- a spike on its way between the tiles of a mesh or torus ------------------------
NoTileObjects ==
    /\ optimized_ring_ = nullptr
    /\ send_log = << >>
    /\ recv_log = << >>
    /\ tick_moves = << >>
    /\ num_cores_ = 0
    /\ current_cycle_ = 0
    /\ core_spikes = << >>
    /\ deleted_spikes = {}
    /\ spikes_routed = 0
    /\ core = nullptr
    /\ core_log = << >>
    /\ fire_log = << >>
    /\ weight_loader = nullptr
    /\ memory = << >>

\* a core of tile src emits one spike for a neuron of tile dest; every tile has
\* MaxNPC neurons
NetInit ==
    /\ \E class \in {"Mesh2D", "Torus2D"}, width \in 1..MaxMeshDim, height \in 1..MaxMeshDim :
          \E src \in 0..(width * height - 1), dest \in 0..(width * height - 1) :
              /\ topology_handler = TopologyHandler(class, width, height, src)
              /\ in_transit = [src |-> src, hops |-> 0, via |-> "core", delivered |-> FALSE,
                               path |-> <<src>>,
                               event |-> NetworkSpikeEvent(src * MaxNPC, dest * MaxNPC, dest,
                                                           WeightOne, 0)]
    /\ NoTileObjects
    /\ NoPE
    /\ NoLegacy
    /\ NoSnnPE

NetRunning == topology_handler # nullptr /\ ~in_transit.delivered

\* the handler of another node of the same topology
handlerAt(h, node_id) == TopologyHandler(h.class, h.width, h.height, node_id)

\* the tile the spike is addressed to gives it to the core of its neuron
NetDeliver ==
    /\ NetRunning
    /\ in_transit.event.dest_node = topology_handler.node_id
    /\ in_transit' = [in_transit EXCEPT !.delivered = TRUE]
    /\ UNCHANGED <<topology_handler, ringVars, tileVars, coreVars, loaderVars, peVars, legacyVars, snnPEVars>>

\* SnnNetworkAdapter::routeSpike over direction links: the port of
\* calculateRoute, the new event of sendViaMultiPortLink, and the spike handler
\* of the neighbour behind that port
NetRouteSpike ==
    /\ NetRunning
    /\ in_transit.via \in {"core", "links"}
    /\ in_transit.event.dest_node # topology_handler.node_id
    /\ LET next_port == calculateRoute(topology_handler, in_transit.event.dest_node)
       IN  /\ next_port >= 0
           /\ getNeighbors(topology_handler)[next_port] >= 0
           /\ topology_handler' = handlerAt(topology_handler,
                                            getNeighbors(topology_handler)[next_port])
           /\ in_transit' = [in_transit EXCEPT
                                !.hops = @ + 1, !.via = "links",
                                !.path = Append(@, getNeighbors(topology_handler)[next_port]),
                                !.event = sendViaMultiPortLink(@)]
    /\ UNCHANGED <<ringVars, tileVars, coreVars, loaderVars, peVars, legacyVars, snnPEVars>>

\* the spike crosses the Merlin network in one request, packed by the source
\* tile's interface and unpacked by the destination tile's
NetRequest ==
    /\ NetRunning
    /\ in_transit.via = "core"
    /\ in_transit.event.dest_node # topology_handler.node_id
    /\ \E class \in {"SnnNIC", "SnnNetworkAdapter"} :
          LET src_nic == IF class = "SnnNIC" THEN SnnNIC(topology_handler.node_id, FALSE)
                         ELSE SnnNetworkAdapter(topology_handler.node_id)
              received == IF class = "SnnNIC"
                          THEN extractSpikeEvent(createNetworkRequest(src_nic, in_transit.event,
                                                     in_transit.event.dest_node))
                          ELSE extractSpikeFromRequest(
                                   convertSpikeToRequest(src_nic, in_transit.event))
          IN  in_transit' = [in_transit EXCEPT !.via = class, !.event = received]
    /\ topology_handler' = handlerAt(topology_handler, in_transit.event.dest_node)
    /\ UNCHANGED <<ringVars, tileVars, coreVars, loaderVars, peVars, legacyVars, snnPEVars>>

NetNext == NetDeliver \/ NetRouteSpike \/ NetRequest

NetSpec == NetInit /\ [][NetNext]_vars

\* ---- InternalRing: the legacy ring of a tile ------------------------------------------
OutputQueueLimit == 100   \* InternalRing::sendMessage: node_output_queues_[src].size() >= 100

\* InternalRing::InternalRing(num_nodes, latency_cycles)
InternalRing(num_nodes, latency_cycles) ==
    [num_nodes_ |-> num_nodes,
     latency_cycles_ |-> latency_cycles,
     node_input_queues_ |-> [i \in 0..(num_nodes - 1) |-> << >>],
     node_output_queues_ |-> [i \in 0..(num_nodes - 1) |-> << >>],
     ring_buffer_ |-> << >>]

\* MultiCorePE::initializeInternalRing with use_optimized_ring = false: no ring
\* for a single core, else the legacy ring with latency_cycles = 1
initializeLegacyRing(num_cores) ==
    IF num_cores <= 1 THEN nullptr
    ELSE InternalRing(num_cores, 1)

\* InternalRing::sendMessage(msg): [ring, ok]
InternalRing_sendMessage(ring, msg) ==
    IF msg.src_unit < 0 \/ msg.src_unit >= ring.num_nodes_
       \/ msg.dst_unit < 0 \/ msg.dst_unit >= ring.num_nodes_
    THEN [ring |-> ring, ok |-> FALSE]
    ELSE IF Len(ring.node_output_queues_[msg.src_unit]) >= OutputQueueLimit
    THEN [ring |-> ring, ok |-> FALSE]
    ELSE [ring |-> [ring EXCEPT !.node_output_queues_[msg.src_unit] = Append(@, msg)],
          ok |-> TRUE]

\* InternalRing::receiveMessage(node_id, msg): [ring, ok, message]
InternalRing_receiveMessage(ring, node_id) ==
    IF node_id < 0 \/ node_id >= ring.num_nodes_
    THEN [ring |-> ring, ok |-> FALSE, message |-> RingMessage]
    ELSE IF ring.node_input_queues_[node_id] = << >>
    THEN [ring |-> ring, ok |-> FALSE, message |-> RingMessage]
    ELSE [ring |-> [ring EXCEPT !.node_input_queues_[node_id] = Tail(@)],
          ok |-> TRUE,
          message |-> Head(ring.node_input_queues_[node_id])]

\* InternalRing::routeMessage(msg)
routeMessage(ring, msg) ==
    IF ring.latency_cycles_ <= 0
    THEN [ring EXCEPT !.node_input_queues_[msg.dst_unit] = Append(@, msg)]
    ELSE [ring EXCEPT !.ring_buffer_ = Append(@, msg)]

\* InternalRing::tick, first loop: every output queue, from node src on, is
\* emptied into routeMessage
RECURSIVE routeOutputQueues(_, _)
routeOutputQueues(ring, src) ==
    IF src >= ring.num_nodes_ THEN ring
    ELSE IF ring.node_output_queues_[src] = << >>
    THEN routeOutputQueues(ring, src + 1)
    ELSE routeOutputQueues(
            routeMessage([ring EXCEPT !.node_output_queues_[src] = Tail(@)],
                         Head(ring.node_output_queues_[src])), src)

\* InternalRing::tick, the test of a buffered message:
\*   uint64_t current_time = 0;
\*   current_time - msg.timestamp >= static_cast<uint64_t>(latency_cycles_)
\* The subtraction is done in 64 unsigned bits: 0 - 0 is 0, and 0 - t is
\* 2^64 - t for a timestamp t > 0, above every latency an int can hold.
latencySatisfied(ring, msg) ==
    IF msg.timestamp = 0 THEN 0 >= ring.latency_cycles_
    ELSE TRUE

\* InternalRing::tick, second loop: the messages of ring_buffer_ from the front
\* on; delayed holds delayed_messages
RECURSIVE releaseDelayed(_, _, _)
releaseDelayed(ring, buffer, delayed) ==
    IF buffer = << >> THEN [ring EXCEPT !.ring_buffer_ = delayed]
    ELSE LET msg == Head(buffer)
         IN  IF latencySatisfied(ring, msg)
             THEN releaseDelayed(
                     [ring EXCEPT !.node_input_queues_[msg.dst_unit] = Append(@, msg)],
                     Tail(buffer), delayed)
             ELSE releaseDelayed(ring, Tail(buffer), Append(delayed, msg))

\* InternalRing::tick
InternalRing_tick(ring) ==
    LET routed == routeOutputQueues(ring, 0)
    IN  releaseDelayed(routed, routed.ring_buffer_, << >>)

\* MultiCorePE::handleCrossCoreRouting: for every core i in turn, one
\* receiveMessage, the spike handed to the core named by msg.dst_unit.
\* d = [ring, t]
RECURSIVE handleCrossCoreRouting(_, _)
handleCrossCoreRouting(d, i) ==
    IF i >= num_cores_ THEN d
    ELSE LET res == InternalRing_receiveMessage(d.ring, i)
         IN  IF res.ok /\ res.message.type = "SPIKE_MESSAGE"
                /\ res.message.payload # NullSpike
             THEN handleCrossCoreRouting(
                     [ring |-> res.ring,
                      t |-> deliverSpikeToCore(d.t, res.message.dst_unit,
                                               res.message.payload)], i + 1)
             ELSE handleCrossCoreRouting([d EXCEPT !.ring = res.ring], i + 1)

\* ---- the tile on its legacy ring --------------------------------------------------------
\* MultiCorePE with use_optimized_ring = false
LegacyInit ==
    /\ \E n \in 1..MaxNodes :
          /\ num_cores_ = n
          /\ internal_ring_ = initializeLegacyRing(n)
          /\ core_spikes = [i \in 0..(n - 1) |-> << >>]
    /\ optimized_ring_ = nullptr
    /\ send_log = << >>
    /\ recv_log = << >>
    /\ tick_moves = << >>
    /\ current_cycle_ = 0
    /\ deleted_spikes = {}
    /\ spikes_routed = 0
    /\ ring_ticks = << >>
    /\ core = nullptr
    /\ core_log = << >>
    /\ fire_log = << >>
    /\ weight_loader = nullptr
    /\ memory = << >>
    /\ NoPE
    /\ NoNet
    /\ NoSnnPE

\* routeInternalSpike(src_core, dst_core, spike) on the tile without the
\* optimized ring.  ring_ticks gets one entry per spike: 0 when the ring
\* accepted it, -1 when it never entered the ring.
LegacyRouteInternalSpike ==
    /\ spikes_routed < MsgBudget(num_cores_)
    /\ \E src_core \in 0..(num_cores_ - 1), dst_core \in 0..(num_cores_ - 1) :
          LET spike == spikes_routed + 1
              t == [cores |-> core_spikes, deleted |-> deleted_spikes]
              msg == [RingMessage EXCEPT !.src_unit = src_core, !.dst_unit = dst_core,
                                         !.timestamp = current_cycle_,
                                         !.payload = spike]
          IN  IF num_cores_ <= 1 \/ src_core = dst_core
              THEN /\ core_spikes' = deliverSpikeToCore(t, dst_core, spike).cores
                   /\ deleted_spikes' = deliverSpikeToCore(t, dst_core, spike).deleted
                   /\ ring_ticks' = Append(ring_ticks, -1)
                   /\ UNCHANGED internal_ring_
              ELSE IF internal_ring_ # nullptr
              THEN LET res == InternalRing_sendMessage(internal_ring_, msg)
                   IN  /\ internal_ring_' = res.ring
                       /\ deleted_spikes' = IF res.ok THEN deleted_spikes
                                            ELSE deleted_spikes \cup {spike}
                       /\ ring_ticks' = Append(ring_ticks, IF res.ok THEN 0 ELSE -1)
                       /\ UNCHANGED core_spikes
              ELSE /\ deleted_spikes' = deleted_spikes \cup {spike}
                   /\ ring_ticks' = Append(ring_ticks, -1)
                   /\ UNCHANGED <<core_spikes, internal_ring_>>
    /\ spikes_routed' = spikes_routed + 1
    /\ UNCHANGED <<ringVars, num_cores_, current_cycle_>>
    /\ UNCHANGED <<coreVars, loaderVars, peVars, netVars, snnPEVars>>

\* clockTick of the tile without the optimized ring: internal_ring_->tick()
\* and handleCrossCoreRouting()
LegacyClockTick ==
    /\ current_cycle_ < MaxLegacyCycles
    /\ current_cycle_' = current_cycle_ + 1
    /\ IF internal_ring_ # nullptr
       THEN LET d == handleCrossCoreRouting(
                        [ring |-> InternalRing_tick(internal_ring_),
                         t |-> [cores |-> core_spikes, deleted |-> deleted_spikes]], 0)
            IN  /\ internal_ring_' = d.ring
                /\ core_spikes' = d.t.cores
                /\ deleted_spikes' = d.t.deleted
                /\ ring_ticks' = [k \in DOMAIN ring_ticks |->
                                     IF ring_ticks[k] < 0 THEN -1 ELSE ring_ticks[k] + 1]
       ELSE UNCHANGED <<internal_ring_, core_spikes, deleted_spikes, ring_ticks>>
    /\ UNCHANGED <<ringVars, num_cores_, spikes_routed>>
    /\ UNCHANGED <<coreVars, loaderVars, peVars, netVars, snnPEVars>>

LegacyNext == LegacyRouteInternalSpike \/ LegacyClockTick

LegacySpec == LegacyInit /\ [][LegacyNext]_vars

\* ---- SnnPE: the standalone single-core processing element ------------------------------
\* Membrane potentials and weights are counted in units of 0.5f, as for the
\* tile core.  A spike is [neuron_id, destination_neuron, destination_node, weight].
MAX_RECURSION_DEPTH == 10   \* SnnPE::checkAndFireSpike
MaxTargetNeuron == 1000     \* SnnPE::checkAndFireSpike: global_target_neuron > 1000

\* loadWeights: the CSR arrays of a weight file that lists the synapses
\* [pre, post, weight] in the order of the pre-synaptic neuron
RECURSIVE csrRowPtr(_, _, _)
csrRowPtr(synapses, num_neurons, i) ==
    IF i > num_neurons THEN << >>
    ELSE <<Cardinality({j \in DOMAIN synapses : synapses[j].pre < i})>>
         \o csrRowPtr(synapses, num_neurons, i + 1)

\* SnnPE::SnnPE and setup: the subcomponents loaded decide the mode; p holds
\* the parameters and the slots that are filled
SnnPE(p) ==
    [num_neurons |-> p.num_neurons,
     node_id |-> p.node_id,
     neuron_id_start |-> 0,
     v_thresh |-> VThresh, v_reset |-> 0, v_rest |-> 0, t_ref |-> p.t_ref,
     weights_per_neuron |-> p.weights_per_neuron,
     memory_ |-> p.memory,
     snn_interface |-> p.network_interface,
     router |-> p.network_interface /\ p.router,
     use_interface_mode |-> p.network_interface,
     use_embedded_router |-> p.network_interface /\ p.router,
     spike_input_link |-> ~(p.network_interface /\ p.router),
     spike_output_link |-> ~p.network_interface,
     enable_test_traffic |-> FALSE,
     test_period |-> 100,
     test_spikes_per_burst |-> 4,
     neurons |-> [i \in 0..(p.num_neurons - 1) |-> NeuronState(0)],
     csr_row_ptr |-> csrRowPtr(p.synapses, p.num_neurons, 0),
     csr_col_indices |-> [j \in DOMAIN p.synapses |-> p.synapses[j].post],
     csr_weights |-> [j \in DOMAIN p.synapses |-> p.synapses[j].weight],
     pending_requests |-> << >>,
     sent |-> 0,
     cycle |-> 0,
     events |-> 0]

\* The handlers work on st = [pe, log]; log lists every v_mem += weight ("add")
\* and every fire with the refractory_timer the neuron had just before.
SnnPE_add(st, neuron_idx, weight) ==
    [pe |-> [st.pe EXCEPT !.neurons[neuron_idx].v_mem = @ + weight],
     log |-> Append(st.log, [op |-> "add", neuron |-> neuron_idx,
                             refractory_timer |-> st.pe.neurons[neuron_idx].refractory_timer])]

\* SnnPE::checkAndFireSpike; depth is recursion_depth
RECURSIVE SnnPE_checkAndFireSpike(_, _, _)
RECURSIVE SnnPE_fireRow(_, _, _, _, _)
SnnPE_fireRow(st, neuron_idx, i, row_end, depth) ==
    IF i >= row_end THEN st
    ELSE IF i >= Len(st.pe.csr_col_indices) \/ i >= Len(st.pe.csr_weights) THEN st
    ELSE LET global_target_neuron == st.pe.csr_col_indices[i + 1]
             weight == st.pe.csr_weights[i + 1]
         IN  IF global_target_neuron > MaxTargetNeuron THEN st
             ELSE IF weight = 0 THEN SnnPE_fireRow(st, neuron_idx, i + 1, row_end, depth)
             ELSE IF global_target_neuron >= st.pe.neuron_id_start
                     /\ global_target_neuron < st.pe.neuron_id_start + st.pe.num_neurons
             THEN LET true_local_target == global_target_neuron - st.pe.neuron_id_start
                  IN  IF st.pe.neurons[true_local_target].refractory_timer = 0
                      THEN SnnPE_fireRow(
                              SnnPE_checkAndFireSpike(
                                  SnnPE_add(st, true_local_target, weight),
                                  true_local_target, depth),
                              neuron_idx, i + 1, row_end, depth)
                      ELSE SnnPE_fireRow(st, neuron_idx, i + 1, row_end, depth)
             ELSE SnnPE_fireRow(
                     IF (st.pe.use_interface_mode /\ st.pe.snn_interface)
                        \/ st.pe.spike_output_link
                     THEN [st EXCEPT !.pe.sent = @ + 1]
                     ELSE st,
                     neuron_idx, i + 1, row_end, depth)

SnnPE_checkAndFireSpike(st, neuron_idx, depth) ==
    IF depth >= MAX_RECURSION_DEPTH THEN st
    ELSE IF st.pe.neurons[neuron_idx].v_mem >= st.pe.v_thresh
    THEN LET fired ==
                 [pe |-> [st.pe EXCEPT !.neurons[neuron_idx] =
                             [v_mem |-> st.pe.v_reset, refractory_timer |-> st.pe.t_ref]],
                  log |-> Append(st.log,
                             [op |-> "fire", neuron |-> neuron_idx,
                              refractory_timer |->
                                  st.pe.neurons[neuron_idx].refractory_timer])]
             row_start == st.pe.csr_row_ptr[neuron_idx + 1]
             row_end == st.pe.csr_row_ptr[neuron_idx + 2]
         IN  IF neuron_idx >= Len(st.pe.csr_row_ptr) - 1 THEN fired
             ELSE IF row_end > Len(st.pe.csr_col_indices)
                     \/ row_end > Len(st.pe.csr_weights)
             THEN fired
             ELSE SnnPE_fireRow(fired, neuron_idx, row_start, row_end, depth + 1)
    ELSE st

\* SnnPE::processLocalSpike
SnnPE_processLocalSpike(st, spike_event) ==
    LET target_neuron == spike_event.destination_neuron
    IN  IF target_neuron < st.pe.num_neurons
        THEN SnnPE_checkAndFireSpike(
                 SnnPE_add(st, target_neuron, spike_event.weight), target_neuron, 0)
        ELSE st

\* SnnPE::handleRouterRequest: the request the embedded router received
SnnPE_handleRouterRequest(st, spike_event) ==
    IF ~st.pe.router THEN st
    ELSE IF spike_event.destination_node = st.pe.node_id
    THEN SnnPE_processLocalSpike(st, spike_event)
    ELSE [st EXCEPT !.pe.sent = @ + 1]

\* SnnPE::handleInterfaceSpike
SnnPE_handleInterfaceSpike(st, spike_event) ==
    LET dest_neuron == spike_event.destination_neuron
    IN  IF spike_event.destination_node # st.pe.node_id THEN st
        ELSE IF dest_neuron >= st.pe.num_neurons THEN st
        ELSE IF spike_event.weight # 0 /\ st.pe.neurons[dest_neuron].refractory_timer = 0
        THEN SnnPE_checkAndFireSpike(
                 SnnPE_add(st, dest_neuron, spike_event.weight), dest_neuron, 0)
        ELSE st

\* SnnPE::handleSpikeEvent, the loop over the CSR row of the pre-synaptic neuron
RECURSIVE SnnPE_spikeRow(_, _, _)
SnnPE_spikeRow(st, i, row_end) ==
    IF i >= row_end THEN st
    ELSE LET global_post_syn_id == st.pe.csr_col_indices[i + 1]
             weight == st.pe.csr_weights[i + 1]
         IN  IF global_post_syn_id >= st.pe.neuron_id_start
                /\ global_post_syn_id < st.pe.neuron_id_start + st.pe.num_neurons
             THEN LET local_post_syn_id == global_post_syn_id - st.pe.neuron_id_start
                  IN  IF st.pe.neurons[local_post_syn_id].refractory_timer = 0
                      THEN SnnPE_spikeRow(
                              SnnPE_checkAndFireSpike(
                                  SnnPE_add(st, local_post_syn_id, weight),
                                  local_post_syn_id, 0),
                              i + 1, row_end)
                      ELSE SnnPE_spikeRow(st, i + 1, row_end)
             ELSE SnnPE_spikeRow(
                     IF st.pe.spike_output_link THEN [st EXCEPT !.pe.sent = @ + 1] ELSE st,
                     i + 1, row_end)

\* SnnPE::handleSpikeEvent: an event of the spike input link
SnnPE_handleSpikeEvent(st, spike_ev) ==
    LET pre_syn_id == spike_ev.neuron_id
        target_local_id == spike_ev.destination_neuron
        local_pre_syn_id == pre_syn_id - st.pe.neuron_id_start
    IN  IF spike_ev.destination_neuron # 0 \/ spike_ev.destination_node # 0
        THEN IF target_local_id >= st.pe.num_neurons THEN st
             ELSE IF st.pe.neurons[target_local_id].refractory_timer = 0
             THEN SnnPE_checkAndFireSpike(
                      SnnPE_add(st, target_local_id, spike_ev.weight), target_local_id, 0)
             ELSE st
        ELSE IF pre_syn_id < st.pe.neuron_id_start
                \/ pre_syn_id >= st.pe.neuron_id_start + st.pe.num_neurons
        THEN st
        ELSE IF st.pe.memory_ /\ st.pe.weights_per_neuron > 0
        THEN [st EXCEPT !.pe.pending_requests = Append(@, spike_ev)]
        ELSE IF st.pe.csr_row_ptr = << >>
                \/ Len(st.pe.csr_row_ptr) <= local_pre_syn_id + 1
        THEN st
        ELSE SnnPE_spikeRow(st, st.pe.csr_row_ptr[local_pre_syn_id + 1],
                            st.pe.csr_row_ptr[local_pre_syn_id + 2])

\* SnnPE::handleMemResponse, the loop over the weights of the response
RECURSIVE SnnPE_applyWeights(_, _, _)
SnnPE_applyWeights(st, weights, i) ==
    IF i >= st.pe.weights_per_neuron THEN st
    ELSE IF i < st.pe.num_neurons /\ st.pe.neurons[i].refractory_timer = 0
    THEN SnnPE_applyWeights(
            SnnPE_checkAndFireSpike(SnnPE_add(st, i, weights[i + 1]), i, 0),
            weights, i + 1)
    ELSE SnnPE_applyWeights(st, weights, i + 1)

\* SnnPE::handleMemResponse: the read response of pending request k; data
\* holds the floats of the response
SnnPE_handleMemResponse(st, k, data) ==
    LET erased == [st EXCEPT !.pe.pending_requests =
                      SubSeq(@, 1, k - 1) \o SubSeq(@, k + 1, Len(@))]
    IN  IF k \notin DOMAIN st.pe.pending_requests THEN st
        ELSE IF Len(data) < st.pe.weights_per_neuron THEN erased
        ELSE SnnPE_applyWeights(erased, data, 0)

\* SnnPE::clockTick: refractory timers and leak; halving stands for the leak
\* factor, as for the tile core
RECURSIVE SnnPE_updateNeurons(_, _)
SnnPE_updateNeurons(q, i) ==
    IF i >= q.num_neurons THEN q
    ELSE IF q.neurons[i].refractory_timer > 0
    THEN SnnPE_updateNeurons([q EXCEPT !.neurons[i].refractory_timer = @ - 1], i + 1)
    ELSE SnnPE_updateNeurons(
            [q EXCEPT !.neurons[i].v_mem = q.v_rest + ((@ - q.v_rest) \div 2)], i + 1)

SnnPE_clockTick(q, current_cycle) ==
    LET updated == SnnPE_updateNeurons([q EXCEPT !.cycle = current_cycle], 0)
    IN  IF updated.use_interface_mode /\ updated.snn_interface /\ updated.enable_test_traffic
           /\ updated.test_period > 0 /\ current_cycle % updated.test_period = 0
        THEN [updated EXCEPT !.sent = @ + Min({updated.test_spikes_per_burst,
                                                updated.num_neurons})]
        ELSE updated

\* ---- the standalone SnnPE under its configurations ----------------------------------------
\* the weight files of the runs: none, and one with the synapses 0 -> 1 and 1 -> 0
SnnPESynapses ==
    {<< >>,
     <<[pre |-> 0, post |-> 1, weight |-> 2], [pre |-> 1, post |-> 0, weight |-> 2]>>}

SnnPEConfigs ==
    [num_neurons : {MaxSnnNeurons}, node_id : {0}, t_ref : {TRef},
     weights_per_neuron : {0, MaxSnnNeurons}, memory : BOOLEAN,
     network_interface : BOOLEAN, router : BOOLEAN,
     synapses : SnnPESynapses]

SnnPESpikes ==
    [neuron_id : {0}, destination_neuron : 0..MaxSnnNeurons,
     destination_node : {0, 1}, weight : {0, 1, 2}]

\* the floats a read response carries: a full line of 1.0f, one of 0.5f, and
\* a response that is too short
SnnPEResponses ==
    {[i \in 1..MaxSnnNeurons |-> 2], [i \in 1..MaxSnnNeurons |-> 1], <<2>>}

SnnPEInit ==
    /\ \E p \in SnnPEConfigs : snn_pe = SnnPE(p)
    /\ snn_pe_log = << >>
    /\ NoTileObjects
    /\ NoPE
    /\ NoNet
    /\ NoLegacy

SnnPERunning == snn_pe # nullptr /\ snn_pe.events < MaxSnnEvents

SnnPEAssign(st) ==
    /\ snn_pe' = [st.pe EXCEPT !.events = snn_pe.events + 1]
    /\ snn_pe_log' = st.log
    /\ UNCHANGED <<ringVars, tileVars, coreVars, loaderVars, peVars, netVars, legacyVars>>

SnnPEHandleSpikeEvent ==
    /\ SnnPERunning
    /\ snn_pe.spike_input_link
    /\ \E ev \in SnnPESpikes :
          SnnPEAssign(SnnPE_handleSpikeEvent([pe |-> snn_pe, log |-> << >>], ev))

SnnPEHandleInterfaceSpike ==
    /\ SnnPERunning
    /\ snn_pe.snn_interface
    /\ \E ev \in SnnPESpikes :
          SnnPEAssign(SnnPE_handleInterfaceSpike([pe |-> snn_pe, log |-> << >>], ev))

SnnPEHandleRouterRequest ==
    /\ SnnPERunning
    /\ snn_pe.router
    /\ \E ev \in SnnPESpikes :
          SnnPEAssign(SnnPE_handleRouterRequest([pe |-> snn_pe, log |-> << >>], ev))

SnnPEHandleMemResponse ==
    /\ SnnPERunning
    /\ snn_pe.pending_requests # << >>
    /\ \E data \in SnnPEResponses :
          SnnPEAssign(SnnPE_handleMemResponse([pe |-> snn_pe, log |-> << >>], 1, data))

SnnPEClockTick ==
    /\ snn_pe # nullptr
    /\ snn_pe.cycle < MaxSnnCycles
    /\ snn_pe' = SnnPE_clockTick(snn_pe, snn_pe.cycle + 1)
    /\ snn_pe_log' = << >>
    /\ UNCHANGED <<ringVars, tileVars, coreVars, loaderVars, peVars, netVars, legacyVars>>

SnnPENext ==
    \/ SnnPEHandleSpikeEvent
    \/ SnnPEHandleInterfaceSpike
    \/ SnnPEHandleRouterRequest
    \/ SnnPEHandleMemResponse
    \/ SnnPEClockTick

SnnPESpec == SnnPEInit /\ [][SnnPENext]_vars

\* ---- the core over its refractory windows -------------------------------------------------
\* cores that integrate the event weight and never read memory, with
\* t_ref in 1..MaxTRef; v_reset = v_thresh makes a neuron fire in the
\* end-of-tick pass as soon as its timer is back at 0
ParamsRefractory ==
    {[DefaultParams EXCEPT !.use_event_weight_fallback = TRUE, !.v_reset = vr, !.t_ref = tr,
                           !.num_neurons = MaxRefNeurons,
                           !.memory_warmup_cycles = MaxRefCycles + 1] :
        vr \in {0, VThresh}, tr \in 1..MaxTRef}

NeverFired == [phase |-> "none", ticks |-> 0]

RefInit ==
    /\ \E params \in ParamsRefractory :
          /\ core = SnnPESubComponent(params)
          /\ fire_log = [n \in 0..(params.num_neurons - 1) |-> NeverFired]
    /\ core_log = << >>
    /\ weight_loader = nullptr
    /\ memory = << >>
    /\ optimized_ring_ = nullptr
    /\ send_log = << >>
    /\ recv_log = << >>
    /\ tick_moves = << >>
    /\ num_cores_ = 0
    /\ current_cycle_ = 0
    /\ core_spikes = << >>
    /\ deleted_spikes = {}
    /\ spikes_routed = 0
    /\ NoPE
    /\ NoNet
    /\ NoLegacy
    /\ NoSnnPE

\* the tile delivers one spike to the core
RefDeliverSpike ==
    /\ core.count_spikes_received_ < MaxRefSpikes
    /\ \E spike \in CoreSpikes(core) :
          /\ core' = deliverSpike(core, spike)
          /\ core_log' = <<[kind |-> "deliver", spike |-> spike]>>
    /\ UNCHANGED fire_log
    /\ UNCHANGED <<ringVars, tileVars, loaderVars, peVars, netVars, legacyVars, snnPEVars>>

\* where in the log of a tick updateNeuronStates ran: the checks before it
\* belong to the drain of the inbound queue, those after it to the firing pass
UpdateAt(log) == CHOOSE k \in 1..Len(log) : log[k].kind = "update"

FiredIn(log, n, from, to) ==
    \E k \in from..to : log[k].kind = "check" /\ log[k].neuron = n /\ log[k].fired

\* one tick of the core's clock; fire_log keeps, for every neuron, the part
\* of the tick it last fired in and the ticks that have begun since
RefClockTick ==
    /\ core.total_cycles_ < MaxRefCycles
    /\ LET r == clockTick([core |-> core, log |-> << >>])
           u == UpdateAt(r.log)
       IN  /\ core' = r.core
           /\ core_log' = r.log
           /\ fire_log' = [n \in DOMAIN fire_log |->
                  IF FiredIn(r.log, n, u + 1, Len(r.log)) THEN [phase |-> "pass", ticks |-> 0]
                  ELSE IF FiredIn(r.log, n, 1, u - 1) THEN [phase |-> "drain", ticks |-> 0]
                  ELSE IF fire_log[n].phase = "none" THEN NeverFired
                  ELSE [fire_log[n] EXCEPT !.ticks = @ + 1]]
    /\ UNCHANGED <<ringVars, tileVars, loaderVars, peVars, netVars, legacyVars, snnPEVars>>

RefNext == RefDeliverSpike \/ RefClockTick

RefSpec == RefInit /\ [][RefNext]_vars

\* ---- properties -----------------------------------------------------------------
HasRing == optimized_ring_ # nullptr

Nodes == 0..(optimized_ring_.num_nodes_ - 1)

Directions == {"CLOCKWISE", "COUNTER_CLOCKWISE", "LOCAL"}

\* where a payload is held: in VC buffers, in ejection queues, in what
\* receiveMessage has returned
VCPositions(p) ==
    {<<n, d, i, k>> \in Nodes \X Directions \X (1..optimized_ring_.num_vcs_)
                        \X (1..optimized_ring_.credits_per_vc_) :
        /\ k <= Len(getVCs(optimized_ring_.nodes_[n], d)[i].buffer)
        /\ getVCs(optimized_ring_.nodes_[n], d)[i].buffer[k].payload = p}

EjectPositions(p) ==
    {<<n, k>> \in Nodes \X (1..MaxLoad) :
        /\ k <= Len(optimized_ring_.nodes_[n].ejection_queue)
        /\ optimized_ring_.nodes_[n].ejection_queue[k].payload = p}

RecvPositions(p) ==
    {<<n, k>> \in Nodes \X (1..MaxLoad) :
        /\ k <= Len(recv_log[n])
        /\ recv_log[n][k].payload = p}

\* the sendMessage call that carried payload p
SendOf(p) == CHOOSE e \in {send_log[i] : i \in 1..Len(send_log)} : e.payload = p

\* C1: in every reachable state of the ring every virtual channel of every
\* node and direction has buffer length + credits = max_credits.
C1_CreditConservation ==
    HasRing =>
        \A n \in Nodes, d \in Directions :
            \A i \in 1..Len(getVCs(optimized_ring_.nodes_[n], d)) :
                LET vc == getVCs(optimized_ring_.nodes_[n], d)[i]
                IN  Len(vc.buffer) + vc.credits = vc.max_credits

\* a tick has run, a message has been received and another is still buffered
C1_Witness ==
    /\ HasRing
    /\ optimized_ring_.total_cycles_ > 0
    /\ \E n \in Nodes : Len(recv_log[n]) > 0
    /\ \E n \in Nodes, d \in Directions :
          \E i \in 1..Len(getVCs(optimized_ring_.nodes_[n], d)) :
              /\ Len(getVCs(optimized_ring_.nodes_[n], d)[i].buffer) > 0
              /\ getVCs(optimized_ring_.nodes_[n], d)[i].credits
                    < getVCs(optimized_ring_.nodes_[n], d)[i].max_credits

\* the ring after ticks without injection, up to the first tick that moves nothing
\* (a tick is a function of the nodes, so nothing moves ever after)
RECURSIVE settle(_)
settle(ring) ==
    LET after == tick(ring, ring.total_cycles_ + 1).ring
    IN  IF after.nodes_ = ring.nodes_ THEN ring ELSE settle(after)

Buffered(ring) ==
    {<<n, d, i>> \in (0..(ring.num_nodes_ - 1)) \X Directions \X (1..ring.num_vcs_) :
        Len(getVCs(ring.nodes_[n], d)[i].buffer) > 0}

\* C2: the ring cannot deadlock: from every reachable state, ticks without
\* further injection leave no message in a VC buffer, and every message ends
\* in the ejection queue of its destination node.
C2_TicksDrainRing ==
    HasRing =>
        LET final == settle(optimized_ring_)
        IN  /\ Buffered(final) = {}
            /\ \A n \in 0..(final.num_nodes_ - 1) :
                  \A k \in 1..Len(final.nodes_[n].ejection_queue) :
                      final.nodes_[n].ejection_queue[k].dst_unit = n

\* two cores, one credit per VC, three spikes routed from one core to the
\* other with no clock tick in between
BackToBackThree ==
    /\ HasRing
    /\ num_cores_ = 2
    /\ optimized_ring_.credits_per_vc_ = 1
    /\ spikes_routed = 3
    /\ Len(send_log) = 3
    /\ \A i \in 1..3 : /\ send_log[i].src = send_log[1].src
                       /\ send_log[i].dst = send_log[1].dst
                       /\ send_log[i].cycle = send_log[1].cycle

CoreDeliveries(p) ==
    {<<c, k>> \in (0..(num_cores_ - 1)) \X (1..MaxLoad) :
        k <= Len(core_spikes[c]) /\ core_spikes[c][k] = p}

\* C3: ring backpressure scenario: none of the three spikes is dropped or
\* duplicated; each is in the ring or delivered to the other core, once.
C3_BackpressureNoLoss ==
    BackToBackThree =>
        /\ deleted_spikes = {}
        /\ \A p \in 1..3 :
              /\ Cardinality(VCPositions(p)) + Cardinality(EjectPositions(p))
                    + Cardinality(CoreDeliveries(p)) = 1
              /\ \A pos \in CoreDeliveries(p) : pos[1] = send_log[1].dst

\* C4: a spike the ring refused is not discarded by the tile (it is kept for
\* a later retry).
C4_RefusedSpikeKept ==
    \A i \in 1..Len(send_log) :
        ~send_log[i].ok => send_log[i].payload \notin deleted_spikes

\* one message only has been given to the ring, and the ring accepted it
SoloMessage ==
    /\ HasRing
    /\ Len(send_log) = 1
    /\ send_log[1].ok
    /\ send_log[1].src # send_log[1].dst

\* C5: with no other message in the ring, an accepted message is ejected at its
\* destination after exactly hops(src, dst, dir) ticks: it is in no VC buffer
\* once that many ticks have run, and the tick that ejects it is that tick.
C5_ExactHopLatency ==
    SoloMessage =>
        LET e == send_log[1]
            dir == selectRoute(optimized_ring_, e.src, e.dst).dir
            hops == calculateHops(optimized_ring_, e.src, e.dst, dir)
            age == optimized_ring_.total_cycles_ - e.cycle
        IN  /\ VCPositions(e.payload) # {} => age < hops
            /\ \A k \in 1..Len(tick_moves) :
                  tick_moves[k].kind = "eject" => age = hops

\* C6: in one tick a message is forwarded over at most one link, and over
\* each directed link (node, direction) at most one message is forwarded.
C6_OneHopPerTick ==
    \A a, b \in 1..Len(tick_moves) :
        (a # b /\ tick_moves[a].kind = "forward" /\ tick_moves[b].kind = "forward")
            => /\ tick_moves[a].msg # tick_moves[b].msg
               /\ <<tick_moves[a].node, tick_moves[a].dir>>
                     # <<tick_moves[b].node, tick_moves[b].dir>>

\* C7 as stated: sendMessage with src = dst returns false.
C7_LocalSendFails ==
    \A i \in 1..Len(send_log) :
        send_log[i].src = send_log[i].dst => ~send_log[i].ok

\* a step that is a call of sendMessage with src = dst
LocalSendStep ==
    /\ Len(send_log') = Len(send_log) + 1
    /\ send_log'[Len(send_log')].src = send_log'[Len(send_log')].dst

\* C7 (amended): sendMessage with src = dst returns true, appends the message
\* to the ejection queue of that node and leaves every VC (buffer, credits) and
\* every other ejection queue unchanged.
C7_LocalSendEjects ==
    [][LocalSendStep =>
          LET e == send_log'[Len(send_log')]
          IN  /\ e.ok
              /\ \A n \in Nodes :
                    /\ optimized_ring_'.nodes_[n].cw_vcs = optimized_ring_.nodes_[n].cw_vcs
                    /\ optimized_ring_'.nodes_[n].ccw_vcs = optimized_ring_.nodes_[n].ccw_vcs
                    /\ optimized_ring_'.nodes_[n].local_vcs = optimized_ring_.nodes_[n].local_vcs
                    /\ n # e.src => optimized_ring_'.nodes_[n].ejection_queue
                                       = optimized_ring_.nodes_[n].ejection_queue
              /\ Len(optimized_ring_'.nodes_[e.src].ejection_queue)
                    = Len(optimized_ring_.nodes_[e.src].ejection_queue) + 1
              /\ SubSeq(optimized_ring_'.nodes_[e.src].ejection_queue, 1,
                        Len(optimized_ring_.nodes_[e.src].ejection_queue))
                    = optimized_ring_.nodes_[e.src].ejection_queue
              /\ optimized_ring_'.nodes_[e.src].ejection_queue[
                     Len(optimized_ring_'.nodes_[e.src].ejection_queue)].payload = e.payload
    ]_vars

\* a local send has happened while another message sits in a VC buffer
C7_Witness ==
    /\ HasRing
    /\ \E i \in 1..Len(send_log) :
          /\ send_log[i].src = send_log[i].dst
          /\ send_log[i].ok
          /\ EjectPositions(send_log[i].payload) # {}
    /\ Buffered(optimized_ring_) # {}

\* C8: a message accepted by sendMessage is held exactly once (in a VC buffer,
\* in an ejection queue, or returned by receiveMessage); it is ejected and
\* received only at its destination node; a refused message is held nowhere.
C8_NoDuplicateNoMisdelivery ==
    HasRing =>
        \A i \in 1..Len(send_log) :
            LET e == send_log[i]
                held == Cardinality(VCPositions(e.payload))
                          + Cardinality(EjectPositions(e.payload))
                          + Cardinality(RecvPositions(e.payload))
            IN  IF e.ok
                THEN /\ held = 1
                     /\ \A pos \in EjectPositions(e.payload) \cup RecvPositions(e.payload) :
                           pos[1] = e.dst
                ELSE held = 0

\* a message has crossed the ring and been received at its destination
C8_Witness ==
    /\ HasRing
    /\ \E i \in 1..Len(send_log) :
          /\ send_log[i].ok
          /\ send_log[i].src # send_log[i].dst
          /\ RecvPositions(send_log[i].payload) # {}

\* C9: messages sent with equal priority from the same source node to the
\* same destination node are received in the order they were sent (payloads
\* are numbered in sending order).
C9_FifoPerSourceAndPriority ==
    HasRing =>
        \A n \in Nodes :
            \A a, b \in 1..Len(recv_log[n]) :
                (/\ a < b
                 /\ recv_log[n][a].src_unit = recv_log[n][b].src_unit
                 /\ SendOf(recv_log[n][a].payload).priority
                       = SendOf(recv_log[n][b].payload).priority)
                    => recv_log[n][a].payload < recv_log[n][b].payload

\* C10: in a ring with a virtual channel per priority level, in no VC buffer
\* does a message sent with a higher priority (lower number) stand behind a
\* message sent with a lower priority.
C10_NoLowerPriorityAhead ==
    (HasRing /\ optimized_ring_.num_vcs_ >= Cardinality(Priorities)) =>
        \A n \in Nodes, d \in Directions :
            \A i \in 1..Len(getVCs(optimized_ring_.nodes_[n], d)) :
                LET buf == getVCs(optimized_ring_.nodes_[n], d)[i].buffer
                IN  \A a, b \in 1..Len(buf) :
                        a < b => SendOf(buf[a].payload).priority
                                    <= SendOf(buf[b].payload).priority

\* C11: for every src # dst of the ring, selectRoute answers clockwise iff
\* (dst - src) mod K <= (src - dst) mod K and counter-clockwise otherwise,
\* whatever the route cache holds; a second call gives the same answer; in a
\* ring of two nodes every route is clockwise.
C11_ClockwiseIffShorter ==
    HasRing =>
        \A src, dst \in Nodes :
            src # dst =>
                LET K == optimized_ring_.num_nodes_
                    first == selectRoute(optimized_ring_, src, dst)
                    again == selectRoute(first.ring, src, dst)
                IN  /\ first.dir \in {"CLOCKWISE", "COUNTER_CLOCKWISE"}
                    /\ first.dir = "CLOCKWISE" <=> ((dst - src) % K <= (src - dst) % K)
                    /\ again.dir = first.dir
                    /\ K = 2 => first.dir = "CLOCKWISE"

\* the route cache holds a clockwise and a counter-clockwise decision and a
\* tick has routed with it
C11_Witness ==
    /\ HasRing
    /\ optimized_ring_.total_cycles_ > 0
    /\ \E k1, k2 \in DOMAIN optimized_ring_.route_lookup_cache_ :
          /\ optimized_ring_.route_lookup_cache_[k1] = "CLOCKWISE"
          /\ optimized_ring_.route_lookup_cache_[k2] = "COUNTER_CLOCKWISE"

\* C12: in every ring of K >= 2 nodes, for every node n: next_cw.prev_cw = n
\* and next_ccw.prev_ccw = n, and the two directions mirror each other
\* (next_cw.next_ccw = n, next_ccw.next_cw = n).
C12_RingClosed ==
    HasRing =>
        \A n \in Nodes :
            LET node == optimized_ring_.nodes_[n]
            IN  /\ node.next_cw \in Nodes /\ node.next_ccw \in Nodes
                /\ optimized_ring_.nodes_[node.next_cw].prev_cw = n
                /\ optimized_ring_.nodes_[node.next_ccw].prev_ccw = n
                /\ optimized_ring_.nodes_[node.next_cw].next_ccw = n
                /\ optimized_ring_.nodes_[node.next_ccw].next_cw = n

\* a ring of more than two nodes that has forwarded a message over a link
C12_Witness ==
    /\ HasRing
    /\ optimized_ring_.num_nodes_ > 2
    /\ \E k \in 1..Len(tick_moves) : tick_moves[k].kind = "forward"

\* ---- properties of the core (CoreSpec) -------------------------------------------
HasCore == core # nullptr

Neurons == 0..(core.num_neurons_ - 1)

\* positions of core_log with an entry of the given kind
LogOf(kind) == {k \in 1..Len(core_log) : core_log[k].kind = kind}

\* the last call was clockTick; its end-of-tick checks follow the "update" entry
IsTickLog == LogOf("update") # {}

EndOfTickChecks ==
    {k \in LogOf("check") : \E u \in LogOf("update") : u < k}

FiringCondition(e) == e.v_mem >= core.v_thresh_ /\ e.refractory_timer = 0

\* C13: a firing check fires the neuron iff v_mem >= v_thresh and
\* refractory_timer = 0 at the check: a refractory neuron never fires, and after
\* a tick every neuron that met the condition at its end-of-tick check has been
\* reset to v_reset with refractory_timer = t_ref, every other neuron is as the
\* check found it.
C13_FiresIffThresholdAndNotRefractory ==
    HasCore =>
        /\ \A k \in LogOf("check") :
              /\ core_log[k].fired <=> FiringCondition(core_log[k])
              /\ core_log[k].refractory_timer > 0 => ~core_log[k].fired
        /\ \A k \in EndOfTickChecks :
              LET e == core_log[k]
              IN  core.neuron_states_[e.neuron] =
                     IF FiringCondition(e)
                     THEN [v_mem |-> core.v_reset_, refractory_timer |-> core.t_ref_]
                     ELSE [v_mem |-> e.v_mem, refractory_timer |-> e.refractory_timer]
        /\ IsTickLog => Cardinality(EndOfTickChecks) = core.num_neurons_

\* a tick whose end-of-tick checks fired one neuron and left a refractory
\* neuron with v_mem >= v_thresh alone
C13_Witness ==
    /\ HasCore
    /\ \E k \in EndOfTickChecks : core_log[k].fired
    /\ \E k \in EndOfTickChecks :
          /\ core_log[k].refractory_timer > 0
          /\ core_log[k].v_mem >= core.v_thresh_
          /\ ~core_log[k].fired

SpikesHandled(log) ==
    Cardinality({k \in 1..Len(log) : log[k].kind = "spike"})

\* C14: a spike processed for a target with refractory_timer > 0 leaves the
\* target's v_mem as it was, and the spike stays counted: spikes_received grows
\* by one with every delivered spike and by nothing else, whatever becomes of
\* the spike when the tick takes it from the queue.
C14_RefractorySpikeIgnoredButCounted ==
    [][HasCore =>
          /\ \A k \in 1..Len(core_log') :
                (/\ core_log'[k].kind = "spike"
                 /\ core_log'[k].outcome # "unmapped"
                 /\ core_log'[k].refractory_timer > 0)
                => /\ core_log'[k].v_after = core_log'[k].v_before
                   /\ core_log'[k].outcome = "refractory"
          /\ core'.count_spikes_received_ - core.count_spikes_received_
                = Len(core'.incoming_spikes_) + SpikesHandled(core_log')
                  - Len(core.incoming_spikes_)
          /\ core'.count_spikes_received_ >= core.count_spikes_received_]_vars

\* a tick that took a spike of positive event weight for a refractory target
C14_Witness ==
    /\ HasCore
    /\ core.use_event_weight_fallback_
    /\ \E k \in LogOf("spike") :
          /\ core_log[k].outcome = "refractory"
          /\ core_log[k].spike.weight > 0
    /\ core.count_spikes_received_ = MaxCoreSpikes

InFlight == DOMAIN core.pending_memory_requests_

\* C15: the weight-fetch reads of the core that are in flight (sent, not yet
\* answered) never number more than max_outstanding_requests.
C15_InFlightWithinMaxOutstanding ==
    HasCore => Cardinality(InFlight) <= core.max_outstanding_requests_

\* the same, for the reads that processLocalSpike issued on a cache miss
C15_MissReadsWithinMaxOutstanding ==
    HasCore =>
        Cardinality({r \in InFlight : core.pending_memory_requests_[r].single_cb.kind = "cache"})
            <= core.max_outstanding_requests_

\* the (pre_local, merged-range) key of a read in flight
FetchKey(r) ==
    <<core.pending_memory_requests_[r].pre, core.pending_memory_requests_[r].post_start,
      core.pending_memory_requests_[r].count_floats>>

\* C16: no two reads in flight at one time have the same (pre_local,
\* merged-range) key.
C16_OneFetchPerKey ==
    HasCore => \A r1, r2 \in InFlight : r1 # r2 => FetchKey(r1) # FetchKey(r2)

\* the same, for the reads that processLocalSpike issued on a cache miss: a
\* further miss on a key whose fetch is pending issues no read
C16_MissesCoalesce ==
    HasCore =>
        \A r1, r2 \in InFlight :
            (/\ r1 # r2
             /\ core.pending_memory_requests_[r1].single_cb.kind = "cache"
             /\ core.pending_memory_requests_[r2].single_cb.kind = "cache")
            => FetchKey(r1) # FetchKey(r2)

\* C17: the weight cache never holds more than max_cache_entries entries,
\* whatever max_cache_entries is configured.
C17_CacheWithinMaxEntries ==
    HasCore => Cardinality(DOMAIN core.weight_cache_) <= core.max_cache_entries_

\* the same for the configurations with max_cache_entries >= 1
C17_CacheWithinPositiveMaxEntries ==
    (HasCore /\ core.max_cache_entries_ >= 1)
        => Cardinality(DOMAIN core.weight_cache_) <= core.max_cache_entries_

\* the last call was handleMemoryResponse for a cacheline-merged read
IsLineResponse ==
    /\ HasCore
    /\ core.merge_read_cacheline_ /\ ~core.merge_read_row_
    /\ LogOf("response") # {}

\* C18: when the response to a cacheline-merged read has been handled, every
\* weight of the fetched line is in the cache: a lookup of (pre, post) hits for
\* every post of the line.
C18_FetchedLineIsCached ==
    IsLineResponse =>
        \A k \in LogOf("response") :
            \A i \in 0..(core_log[k].request.count_floats - 1) :
                cacheKey(core, core_log[k].request.pre, core_log[k].request.post_start + i)
                    \in DOMAIN core.weight_cache_

\* the same where the cache can hold two whole lines or more
C18_FetchedLineIsCachedInRoomyCache ==
    (IsLineResponse /\ core.max_cache_entries_ > floatsPerLine(core))
        => C18_FetchedLineIsCached

\* the byte address of w[pre, post] in the core's weight block
WeightAddr(c, pre, post) == c.base_addr_ + (pre * c.num_neurons_ + post) * BytesPerFloat

\* the misses of the last tick that issued a read under cacheline merge: the
\* position in core_log of the spike's entry; its read is the entry before it
LineMisses ==
    IF HasCore /\ core.merge_read_cacheline_ /\ ~core.merge_read_row_
    THEN {k \in LogOf("spike") : core_log[k].outcome = "miss"}
    ELSE {}

\* C19: under cacheline merge a miss on (pre, post) issues one Read, of
\* exactly line_size_bytes bytes, that starts on a multiple of line_size_bytes
\* and covers the address of w[pre, post].
C19_MissReadsOneAlignedLine ==
    \A k \in LineMisses :
        /\ k > 1
        /\ core_log[k - 1].kind = "read"
        /\ core_log[k - 1].pre = core_log[k].pre_local
        /\ core_log[k - 1].post = core_log[k].post_local
        /\ core_log[k - 1].size = core.line_size_bytes_
        /\ core_log[k - 1].addr % core.line_size_bytes_ = 0
        /\ core_log[k - 1].addr <= WeightAddr(core, core_log[k].pre_local, core_log[k].post_local)
        /\ WeightAddr(core, core_log[k].pre_local, core_log[k].post_local)
               < core_log[k - 1].addr + core_log[k - 1].size

\* what holds of such a read: it is one read that covers the weight
C19_MissReadCoversWeight ==
    \A k \in LineMisses :
        /\ k > 1
        /\ core_log[k - 1].kind = "read"
        /\ core_log[k - 1].addr <= WeightAddr(core, core_log[k].pre_local, core_log[k].post_local)
        /\ WeightAddr(core, core_log[k].pre_local, core_log[k].post_local)
               < core_log[k - 1].addr + core_log[k - 1].size
        /\ core_log[k - 1].size <= core.line_size_bytes_

\* the reads of exactly line_size_bytes bytes are aligned
C19_FullLineReadsAligned ==
    \A k \in LineMisses :
        core_log[k - 1].size = core.line_size_bytes_
            => core_log[k - 1].addr % core.line_size_bytes_ = 0

\* the aligned reads have exactly line_size_bytes bytes
C19_AlignedReadsFullLine ==
    \A k \in LineMisses :
        core_log[k - 1].addr % core.line_size_bytes_ = 0
            => core_log[k - 1].size = core.line_size_bytes_

\* ---- properties of the weight addresses (AddrSpec) --------------------------------
HasLoader == weight_loader # nullptr

\* C20: the address at which the core reads w[p, q] is the address at which
\* the loader writes cell (p, q) of that core,
\* BASE + t*TILE_STRIDE + c*CORE_STRIDE + (p*NPC + q)*4 with NPC = neurons_per_core.
C20_ReadAddressIsLoaderAddress ==
    HasLoader =>
        \A r \in InFlight :
            requestAddr(core.pending_memory_requests_[r])
                = loaderAddr(weight_loader, core.core_id_,
                             core.pending_memory_requests_[r].pre,
                             core.pending_memory_requests_[r].cb_post)

\* the consequence: once the loader is done, the cell the core reads for
\* w[p, q] holds float p*NPC + q of the core's file
C20_ReadYieldsFileFloat ==
    (HasLoader /\ weight_loader.core = weight_loader.num_cores_) =>
        \A r \in InFlight :
            LET pmr == core.pending_memory_requests_[r]
            IN  /\ requestAddr(pmr) \in DOMAIN memory
                /\ memory[requestAddr(pmr)] =
                      [file |-> core.core_id_,
                       index |-> pmr.pre * weight_loader.neurons_per_core_ + pmr.cb_post]

\* the law holds in the tiles of one core
C20_LawInSingleCoreTile ==
    (HasLoader /\ num_cores_ = 1) => C20_ReadAddressIsLoaderAddress

\* the step is a handleMemoryResponse call for a read that processLocalSpike
\* issued on a miss (a read that took a slot of outstanding_requests_)
IsMissResponseStep ==
    /\ HasCore
    /\ Len(core_log') = 1
    /\ core_log'[1].kind = "response"
    /\ core_log'[1].request.single_cb.kind = "cache"

\* C21: the response to a weight-fetch read removes its pending entry, so the
\* reads in flight drop by exactly one, and releases exactly one slot:
\* outstanding_requests_ drops by exactly one.
C21_ResponseReleasesOneSlot ==
    [][IsMissResponseStep =>
          /\ core_log'[1].request.request_id \in DOMAIN core.pending_memory_requests_
          /\ DOMAIN core'.pending_memory_requests_
                = (DOMAIN core.pending_memory_requests_) \ {core_log'[1].request.request_id}
          /\ core'.outstanding_requests_ = core.outstanding_requests_ - 1]_vars

\* the part about the pending entry alone
C21_ResponseRemovesPendingEntry ==
    [][IsMissResponseStep =>
          DOMAIN core'.pending_memory_requests_
              = (DOMAIN core.pending_memory_requests_) \ {core_log'[1].request.request_id}]_vars

\* ---- properties of the tile's dispatch (PESpec) -----------------------------------
HasPE == pe # nullptr

\* the step is a call of the named handler of the tile
IsCall(handler) ==
    /\ HasPE
    /\ Len(pe_log') >= 1
    /\ pe_log'[1].handler = handler

\* the history of the step has an entry of the named operation for the spike
Did(op, spike) == \E i \in DOMAIN pe_log' : pe_log'[i].op = op /\ pe_log'[i].spike = spike

\* the step appends the spike to the slot of one core and to no other
DeliveredOnlyTo(core_id, spike) ==
    core_spikes' = [core_spikes EXCEPT ![core_id] = Append(@, spike)]

\* the step hands the spike to the ring, from src_core to dst_core
SentOnRing(src_core, dst_core, spike) ==
    /\ Len(send_log') = Len(send_log) + 1
    /\ send_log'[Len(send_log')].payload = spike
    /\ send_log'[Len(send_log')].src = src_core
    /\ send_log'[Len(send_log')].dst = dst_core
    /\ send_log'[Len(send_log')].priority = 1

\* C22: when a core emits a spike on a tile with a NIC, the spike's destination
\* tile decides: for this tile, the spike goes to the core that owns its
\* destination neuron and to no other (appended to the core's slot when the
\* source core owns it, handed to the ring from the source core otherwise) and
\* not to the NIC; for another tile, the spike is handed to the NIC, and no core
\* slot and not the ring receives it.
C22_DispatchFollowsDstTile ==
    [][IsCall("sendSpike") /\ external_nic_ # nullptr =>
          LET spike == pe_log'[1].spike
              event == pe_log'[1].event
              owner == determineTargetUnit(pe, event.dest_neuron)
              src_core == determineTargetUnit(pe, event.neuron_id)
          IN  /\ event.dest_node = pe.node_id_ /\ owner >= 0 /\ src_core >= 0 =>
                    /\ ~Did("sendSpike", spike)
                    /\ IF src_core = owner
                       THEN DeliveredOnlyTo(owner, spike) /\ send_log' = send_log
                       ELSE SentOnRing(src_core, owner, spike) /\ core_spikes' = core_spikes
              /\ event.dest_node # pe.node_id_ =>
                    /\ Did("sendSpike", spike)
                    /\ core_spikes' = core_spikes
                    /\ send_log' = send_log]_vars

\* the half of C22 for spikes of this tile: the owning core or the ring gets them
C22_OwnSpikeReachesOwner ==
    [][IsCall("sendSpike") =>
          LET spike == pe_log'[1].spike
              event == pe_log'[1].event
              owner == determineTargetUnit(pe, event.dest_neuron)
              src_core == determineTargetUnit(pe, event.neuron_id)
          IN  event.dest_node = pe.node_id_ /\ owner >= 0 /\ src_core >= 0 =>
                 /\ ~Did("sendSpike", spike)
                 /\ IF src_core = owner
                    THEN DeliveredOnlyTo(owner, spike) /\ send_log' = send_log
                    ELSE SentOnRing(src_core, owner, spike) /\ core_spikes' = core_spikes]_vars

\* the step puts the spike on the way to the mesh: a request sent on the
\* network, or a copy of the event sent on the NIC's direct link
PutOnMesh(spike) ==
    \E i \in DOMAIN pe_log' :
        \/ pe_log'[i].op = "send" /\ pe_log'[i].spike = spike
        \/ pe_log'[i].op = "link" /\ pe_log'[i].of = spike

\* C23: no step of a tile puts a spike on the mesh that the NIC handed to the
\* tile (handleExternalSpike) and whose destination tile is the tile itself.
C23_NicArrivalNotResent ==
    [][HasPE =>
          \A spike \in pe'.from_nic :
              spike_pool'[spike].dest_node = pe.node_id_ => ~PutOnMesh(spike)]_vars

\* what holds of the guard: sendExternalSpike itself sends no spike of this
\* tile, so the calls of sendSpike and handleExternalSpikeEvent put none on the mesh
C23_GuardedPathsDoNotResend ==
    [][IsCall("sendSpike") \/ IsCall("handleExternalSpikeEvent") =>
          \A spike \in DOMAIN spike_pool' :
              spike_pool'[spike].dest_node = pe.node_id_ => ~PutOnMesh(spike)]_vars

\* the spike is in the slot of a core
InCoreSlot(spike) ==
    \E c \in DOMAIN core_spikes' : \E i \in DOMAIN core_spikes'[c] : core_spikes'[c][i] = spike

\* C24: a spike that reached the tile with hop_count >= MAX_HOPS, on the external
\* spike link or through the NIC's receive callback, is never in the slot of a
\* core and no step puts it on the mesh.
C24_ExpiredArrivalDropped ==
    [][HasPE =>
          \A spike \in pe'.expired_in : ~InCoreSlot(spike) /\ ~PutOnMesh(spike)]_vars

\* the expiry check of the external spike link: the call deletes an expired
\* spike and does nothing else with it
C24_ExpiredDroppedOnExternalLink ==
    [][IsCall("handleExternalSpikeEvent") /\ isExpired(pe_log'[1].event) =>
          /\ pe_log'[1].spike \in deleted_spikes'
          /\ core_spikes' = core_spikes
          /\ network' = network
          /\ pe'.external_spike_queue_ = pe.external_spike_queue_]_vars

\* the step is the NIC taking request req from the mesh and handing the tile
\* the spike it made of it
Received(req, spike) ==
    /\ IsCall("handleIncoming")
    /\ \E i \in DOMAIN pe_log' : pe_log'[i].op = "recv" /\ pe_log'[i].req = req
    /\ Did("handleExternalSpike", spike)

\* C25: across a transfer over the mesh the hop count is kept and grows: the
\* spike the receiving NIC hands to its tile has a larger hop_count than the
\* event the sending NIC made the request from, so that a spike sent with
\* hop_count >= MAX_HOPS arrives expired.
C25_HopCountCarriedAcrossMesh ==
    [][HasPE =>
          \A spike \in DOMAIN spike_pool' :
              \A i \in DOMAIN pe_log' :
                  pe_log'[i].op = "recv" /\ Received(pe_log'[i].req, spike) =>
                      /\ spike_pool'[spike].hop_count > pe_log'[i].req.of_spike.hop_count
                      /\ isExpired(pe_log'[i].req.of_spike) => isExpired(spike_pool'[spike])]_vars

\* on the external spike link the hop count does grow by one per arrival
C25_HopCountGrowsOnExternalLink ==
    [][IsCall("handleExternalSpikeEvent") /\ ~isExpired(pe_log'[1].event) =>
          spike_pool'[pe_log'[1].spike].hop_count = pe_log'[1].event.hop_count + 1]_vars

\* ---- properties of the SpikeEvent round trips (SerSpec) -----------------------------
\* the round trips done so far
RoundTrips == {pe_log[i] : i \in {j \in DOMAIN pe_log : pe_log[j].op \in {"SpikeEvent", "SpikeEventWrapper", "SnnNIC"}}}

\* C26: what comes out of a round trip (SpikeEvent serialization, wrapper
\* serialization, NIC packet) equals what went in, in all six fields.
C26_RoundTripPreservesSixFields ==
    \A r \in RoundTrips :
        /\ r.out.neuron_id = r.in.neuron_id
        /\ r.out.dest_neuron = r.in.dest_neuron
        /\ r.out.dest_node = r.in.dest_node
        /\ r.out.weight = r.in.weight
        /\ r.out.timestamp = r.in.timestamp
        /\ r.out.hop_count = r.in.hop_count

\* what the round trips do keep: source, destination neuron, destination tile
\* and timestamp on all three ways, and the weight in the two serializations
C26_RoundTripPreservesAddressing ==
    \A r \in RoundTrips :
        /\ r.out.neuron_id = r.in.neuron_id
        /\ r.out.dest_neuron = r.in.dest_neuron
        /\ r.out.dest_node = r.in.dest_node
        /\ r.out.timestamp = r.in.timestamp
        /\ r.op # "SnnNIC" => r.out.weight = r.in.weight

\* ---- properties of the test-traffic generator (PESpec) ------------------------------
\* the test spikes the step generated
Burst == Cardinality({i \in DOMAIN pe_log' : pe_log'[i].op = "test_spike"})

IsTestTick == IsCall("clockTick") /\ pe.enable_test_traffic_

\* C27 as stated, for every test_max_spikes >= 0: a tick generates at most
\* test_spikes_per_burst test spikes, only in a cycle that is a multiple of
\* test_period, test_spikes_sent_ counts them and never exceeds
\* test_max_spikes, and no test spike is generated once it has reached it.
C27_TestTrafficWithinMaxSpikes ==
    [][IsTestTick =>
          /\ Burst <= pe.test_spikes_per_burst_
          /\ Burst > 0 => current_cycle_' % pe.test_period_ = 0
          /\ pe'.test_spikes_sent_ = pe.test_spikes_sent_ + Burst
          /\ pe'.test_spikes_sent_ <= pe.test_max_spikes_
          /\ pe.test_spikes_sent_ >= pe.test_max_spikes_ => Burst = 0]_vars

\* C27 (amended): the same, with the total bounded for every test_max_spikes
\* > 0; test_max_spikes = 0 sets no limit, and the bursts go on.
C27_TestTrafficWithinPositiveMaxSpikes ==
    [][IsTestTick =>
          /\ Burst <= pe.test_spikes_per_burst_
          /\ Burst > 0 => current_cycle_' % pe.test_period_ = 0
          /\ pe'.test_spikes_sent_ = pe.test_spikes_sent_ + Burst
          /\ pe.test_max_spikes_ > 0 =>
                /\ pe'.test_spikes_sent_ <= pe.test_max_spikes_
                /\ pe.test_spikes_sent_ >= pe.test_max_spikes_ => Burst = 0
          /\ pe.test_max_spikes_ = 0 /\ current_cycle_' % pe.test_period_ = 0 =>
                Burst = pe.test_spikes_per_burst_]_vars

\* a tick without a burst, in a cycle where the period asks for one, after two
\* bursts that reached test_max_spikes, the second one cut short
C27_Witness ==
    /\ HasPE
    /\ pe.enable_test_traffic_
    /\ pe.test_max_spikes_ > pe.test_spikes_per_burst_
    /\ pe.test_max_spikes_ < 2 * pe.test_spikes_per_burst_
    /\ pe.test_spikes_sent_ = pe.test_max_spikes_
    /\ Len(pe_log) >= 1
    /\ pe_log[1].handler = "clockTick"
    /\ current_cycle_ % pe.test_period_ = 0
    /\ \A i \in DOMAIN pe_log : pe_log[i].op # "test_spike"

\* ---- properties of the network interfaces (NicSpec, NicFairSpec) ----------------------
HasNic == pe = nullptr /\ external_nic_ # nullptr /\ network # nullptr

\* the k-th spike was handed to the interface
HandedOver(k) == HasNic /\ Len(spike_pool) >= k

\* the k-th spike was put on the mesh
OnMesh(k) ==
    /\ HandedOver(k)
    /\ \E i \in 1..Len(network.packets) : network.packets[i].of_spike = spike_pool[k]

\* the k-th spike waits in the interface
Waiting(k) ==
    /\ HandedOver(k)
    /\ \E i \in 1..Len(sendQueue(external_nic_)) : sendQueue(external_nic_)[i] = k

QueueOverflow == HasNic /\ Len(sendQueue(external_nic_)) > external_nic_.output_buf_size

\* C28: while the link control keeps returning credits, every spike handed to
\* the network interface is eventually put on the mesh, unless the send queue
\* overflows.
C28_HandedSpikeReachesMesh ==
    \A k \in 1..MaxNicSpikes : HandedOver(k) ~> (OnMesh(k) \/ QueueOverflow)

\* C28, for the one class that retries: every spike handed to a SnnNIC is
\* eventually put on the mesh.
C28_SnnNICSpikeReachesMesh ==
    \A k \in 1..MaxNicSpikes :
        (HandedOver(k) /\ external_nic_.class = "SnnNIC") ~> OnMesh(k)

\* C28, the first half: a spike that was handed over is on the mesh or waits
\* in the send queue.
C28_UnsentSpikeKept ==
    \A k \in 1..MaxNicSpikes : HandedOver(k) => (OnMesh(k) \/ Waiting(k))

\* the packets on the mesh appear in the order their spikes were handed over
MeshInHandOverOrder ==
    \A i, j \in 1..Len(network.packets) :
        i < j => network.packets[i].of_spike.timestamp < network.packets[j].of_spike.timestamp

\* no packet on the mesh was handed over after a spike that still waits
NoneOvertaken ==
    \A i \in 1..Len(network.packets) : \A q \in 1..Len(sendQueue(external_nic_)) :
        network.packets[i].of_spike.timestamp < spike_pool[sendQueue(external_nic_)[q]].timestamp

\* C29: a SnnNIC puts spikes on the mesh in the order they were handed over,
\* and no spike on the mesh overtook one that still waits in the send queue.
C29_SendQueueFifo ==
    (HasNic /\ external_nic_.class = "SnnNIC") => (MeshInHandOverOrder /\ NoneOvertaken)

\* C29, for sendSpike alone: while a spike waits in a SnnNIC the network has no
\* room for a request, so a new spike joins the queue instead of passing it.
C29_NewSpikeJoinsQueue ==
    (HasNic /\ external_nic_.class = "SnnNIC" /\ external_nic_.pending_spikes # << >>)
        => ~spaceToSend(network, PacketFlits)

\* C30: the send queue of a SnnNIC or a MultiCorePERouterInterface never holds
\* more than output_buf_size spikes.
C30_SendQueueBounded ==
    (HasNic /\ external_nic_.class \in {"SnnNIC", "MultiCorePERouterInterface"})
        => Len(sendQueue(external_nic_)) <= external_nic_.output_buf_size

\* C30, what the two classes do instead: no spike is dropped, every spike that
\* was handed over is on the mesh or in the send queue.
C30_EverySpikeKept ==
    (HasNic /\ external_nic_.class \in {"SnnNIC", "MultiCorePERouterInterface"})
        => Len(sendQueue(external_nic_)) + Len(network.packets) = Len(spike_pool)

\* ---- properties of the routes between tiles (NetSpec) ----------------------------------
HasNet == topology_handler # nullptr

OnTopology(class) == HasNet /\ topology_handler.class = class

\* |dx| + |dy| between two nodes whose ids are y * width + x
Manhattan(width, a, b) ==
    LET dx == (a % width) - (b % width)
        dy == (a \div width) - (b \div width)
    IN  (IF dx < 0 THEN -dx ELSE dx) + (IF dy < 0 THEN -dy ELSE dy)

\* the shorter way round a dimension of size n
Shorter(d, n) ==
    LET m == IF d < 0 THEN -d ELSE d
    IN  IF m <= n - m THEN m ELSE n - m

WrapDistance(width, height, a, b) ==
    Shorter((a % width) - (b % width), width) + Shorter((a \div width) - (b \div width), height)

\* the spike moved over one direction link in this step
TookHop == HasNet /\ in_transit'.hops = in_transit.hops + 1

\* C33: on Mesh2D every hop through the port of calculateRoute brings the spike
\* strictly closer (Manhattan distance) to its destination, the port has a
\* neighbour behind it, and calculateRoute says Local only at the destination.
C33_MeshDistanceDecreases ==
    /\ [](OnTopology("Mesh2D") =>
            LET port == Mesh2DHandler_calculateRoute(topology_handler,
                                                     in_transit.event.dest_node)
            IN  /\ (port = Local) <=> (topology_handler.node_id = in_transit.event.dest_node)
                /\ port # Local => Mesh2DHandler_getNeighbors(topology_handler)[port] >= 0)
    /\ [][(OnTopology("Mesh2D") /\ TookHop) =>
            Manhattan(topology_handler.width, topology_handler'.node_id,
                      in_transit.event.dest_node)
              < Manhattan(topology_handler.width, topology_handler.node_id,
                          in_transit.event.dest_node)]_vars

\* a spike crossed a 4x4 mesh from corner to corner over the direction links
C33_Witness ==
    /\ OnTopology("Mesh2D")
    /\ topology_handler.width = 4 /\ topology_handler.height = 4
    /\ in_transit.src = 0 /\ in_transit.event.dest_node = 15
    /\ in_transit.via = "links" /\ in_transit.delivered
    /\ in_transit.path = <<0, 1, 2, 3, 7, 11, 15>>

\* C34: a spike delivered on a Mesh2D has a hop_count equal to the hop distance
\* |dx| + |dy| between its source tile and its destination tile.
C34_HopCountIsMeshDistance ==
    (OnTopology("Mesh2D") /\ in_transit.delivered)
        => in_transit.event.hop_count
             = Manhattan(topology_handler.width, in_transit.src, in_transit.event.dest_node)

\* C34, what does hold: the number of links a delivered spike crossed is the
\* hop distance calculateHopDistance gives at the source.
C34_LinksCrossedAreMeshDistance ==
    (OnTopology("Mesh2D") /\ in_transit.delivered /\ in_transit.via # "SnnNIC"
        /\ in_transit.via # "SnnNetworkAdapter")
        => in_transit.hops
             = Mesh2DHandler_calculateHopDistance(
                   handlerAt(topology_handler, in_transit.src), in_transit.event.dest_node)

\* the moves of the path so far: the x moves come before the y moves
XBeforeY(width, path) ==
    \A i, j \in 1..(Len(path) - 1) :
        (i < j /\ path[i] \div width # path[i + 1] \div width)
            => path[j] % width = path[j + 1] % width

\* C35: on Torus2D the hops taken plus the wrap-around distance still to go is
\* always min(|dx|, W-|dx|) + min(|dy|, H-|dy|) from source to destination, the
\* route says Local only at the destination, the X moves come before the Y
\* moves, and calculateHopDistance gives the same number.
C35_TorusMinimalRoute ==
    (OnTopology("Torus2D") /\ in_transit.via \in {"core", "links"}) =>
        LET h == topology_handler
            dest == in_transit.event.dest_node
            minimal == WrapDistance(h.width, h.height, in_transit.src, dest)
        IN  /\ in_transit.hops + WrapDistance(h.width, h.height, h.node_id, dest) = minimal
            /\ (Torus2DHandler_calculateRoute(h, dest) = Local) <=> (h.node_id = dest)
            /\ XBeforeY(h.width, in_transit.path)
            /\ Torus2DHandler_calculateHopDistance(handlerAt(h, in_transit.src), dest) = minimal
            /\ in_transit.delivered => in_transit.hops = minimal

\* a spike went round the edge of a 4x4 torus in both dimensions
C35_Witness ==
    /\ OnTopology("Torus2D")
    /\ topology_handler.width = 4 /\ topology_handler.height = 4
    /\ in_transit.src = 0 /\ in_transit.event.dest_node = 15
    /\ in_transit.delivered
    /\ in_transit.path = <<0, 3, 15>>

\* ---- properties of the ring's directions and its deadlock detector (Spec) ---------------
RingDirections == {"CLOCKWISE", "COUNTER_CLOCKWISE"}

\* P(i, d, m) for every message m buffered at node i in a VC of direction d
EveryBuffered(P(_, _, _)) ==
    \A i \in 0..(optimized_ring_.num_nodes_ - 1), d \in RingDirections :
        \A k \in 1..Len(getVCs(optimized_ring_.nodes_[i], d)) :
            \A j \in 1..Len(getVCs(optimized_ring_.nodes_[i], d)[k].buffer) :
                P(i, d, getVCs(optimized_ring_.nodes_[i], d)[k].buffer[j])

\* m, injected in direction d, is at node i on its way and will go on in d
KeepsDirection(i, d, m) ==
    /\ selectRoute(optimized_ring_, m.src_unit, m.dst_unit).dir = d
    /\ m.dst_unit # i => selectRoute(optimized_ring_, i, m.dst_unit).dir = d
    /\ calculateHops(optimized_ring_, m.src_unit, i, d)
         + calculateHops(optimized_ring_, i, m.dst_unit, d)
       = calculateHops(optimized_ring_, m.src_unit, m.dst_unit, d)
    /\ calculateHops(optimized_ring_, m.src_unit, m.dst_unit, d) < optimized_ring_.num_nodes_

\* C38: a ring message keeps the direction chosen at injection: where it is
\* buffered, the direction recomputed from that node is the direction of the
\* VC it travels in and of its injection, the node lies on the path from its
\* source to its destination in that direction (no node is visited twice),
\* and every forward of the last tick went on in the direction of the VC.
C38_DirectionKept ==
    HasRing =>
        /\ EveryBuffered(KeepsDirection)
        /\ \A k \in 1..Len(tick_moves) :
              tick_moves[k].kind = "forward" => tick_moves[k].dir = tick_moves[k].vc_dir

AtIntermediate(i, d, m) == m.src_unit # i /\ m.dst_unit # i

\* a message was forwarded to a node between its source and its destination
C38_Witness ==
    /\ HasRing
    /\ ~EveryBuffered(LAMBDA i, d, m : ~AtIntermediate(i, d, m))
    /\ \E k \in 1..Len(tick_moves) : tick_moves[k].kind = "forward"

\* every VC of direction d, at every node, holds data and has no credit
AllBlocked(ring, d) ==
    \A i \in 0..(ring.num_nodes_ - 1) :
        \A k \in 1..Len(getVCs(ring.nodes_[i], d)) :
            hasData(getVCs(ring.nodes_[i], d)[k]) /\ getVCs(ring.nodes_[i], d)[k].credits = 0

DeadlockWarned == \E k \in 1..Len(tick_moves) : tick_moves[k].kind = "deadlock_warning"

\* C39: when every VC of one direction holds data and has zero credit before
\* and after a tick that is not the first, the tick raises the deadlock warning.
C39_BlockedDirectionWarned ==
    [][(/\ HasRing
        /\ optimized_ring_.total_cycles_ >= 1
        /\ optimized_ring_'.total_cycles_ = optimized_ring_.total_cycles_ + 1
        /\ \E d \in RingDirections :
              AllBlocked(optimized_ring_, d) /\ AllBlocked(optimized_ring_', d))
       => DeadlockWarned']_vars

\* C39, the detector itself: called on a ring whose clockwise VCs are all
\* blocked it returns true.
C39_DetectorSeesBlockedClockwise ==
    (HasRing /\ AllBlocked(optimized_ring_, "CLOCKWISE")) => detectDeadlock(optimized_ring_)

\* ---- properties of the legacy ring (LegacySpec) ------------------------------------------
HasLegacyRing == internal_ring_ # nullptr

AcceptedByRing == {k \in DOMAIN ring_ticks : ring_ticks[k] >= 0}

\* spike k waits in the input queue of its destination node
ReceivableAtDst(k) ==
    \E i \in DOMAIN internal_ring_.node_input_queues_ :
        \E j \in DOMAIN internal_ring_.node_input_queues_[i] :
            /\ internal_ring_.node_input_queues_[i][j].payload = k
            /\ internal_ring_.node_input_queues_[i][j].dst_unit = i

\* spike k was received and handed to a core
HandedToCore(k) ==
    \E i \in DOMAIN core_spikes : \E j \in DOMAIN core_spikes[i] : core_spikes[i][j] = k

HeldInRingBuffer(k) ==
    \E j \in DOMAIN internal_ring_.ring_buffer_ : internal_ring_.ring_buffer_[j].payload = k

\* C40: on the legacy ring every message sendMessage accepted is receivable at
\* its destination node (or was already received there) once the ring has
\* ticked latency_cycles times since, whatever the cycle it was sent in,
\* cycle 0 included.
C40_ReceivableAfterLatency ==
    HasLegacyRing =>
        \A k \in AcceptedByRing :
            ring_ticks[k] >= internal_ring_.latency_cycles_ => ReceivableAtDst(k) \/ HandedToCore(k)

\* what the ring does instead: a message is held back only if it was sent in
\* cycle 0, and then it is held over every tick; any other message leaves the
\* ring buffer in the tick that routes it
C40_OnlyCycleZeroHeld ==
    HasLegacyRing =>
        /\ \A j \in DOMAIN internal_ring_.ring_buffer_ :
               internal_ring_.ring_buffer_[j].timestamp = 0
        /\ \A k \in AcceptedByRing :
               ring_ticks[k] >= 1 =>
                   \/ ReceivableAtDst(k) \/ HandedToCore(k)
                   \/ HeldInRingBuffer(k)

\* a spike sent in cycle 0 is still in the ring buffer after MaxLegacyCycles ticks
C40_HeldToTheEnd ==
    /\ HasLegacyRing
    /\ \E k \in AcceptedByRing : ring_ticks[k] = MaxLegacyCycles /\ HeldInRingBuffer(k)

\* ---- properties of the standalone SnnPE (SnnPESpec) ---------------------------------------
HasSnnPE == snn_pe # nullptr

\* the last handler added a weight to, or fired, a neuron that was refractory
TouchedRefractory ==
    \E j \in DOMAIN snn_pe_log : snn_pe_log[j].refractory_timer > 0

\* C37: in the standalone SnnPE no handler adds a weight to the v_mem of a
\* neuron whose refractory_timer is above 0, and no such neuron fires,
\* whichever way the spike came in: spike link, network interface, embedded
\* router or memory response.
C37_RefractoryNeuronUntouched ==
    HasSnnPE => ~TouchedRefractory

\* without the embedded router every path leaves a refractory neuron alone
C37_UntouchedWithoutRouter ==
    (HasSnnPE /\ ~snn_pe.router) => ~TouchedRefractory

\* a refractory neuron fired again
C37_RefractoryNeuronFired ==
    /\ HasSnnPE
    /\ \E j \in DOMAIN snn_pe_log :
          snn_pe_log[j].op = "fire" /\ snn_pe_log[j].refractory_timer > 0

\* ---- properties of the core's refractory window (RefSpec) ---------------------------------
\* the inputs of the tick just taken that changed the v_mem of neuron n
InputChanged(n) ==
    \E k \in 1..Len(core_log') :
        /\ core_log'[k].kind = "spike"
        /\ core_log'[k].outcome # "unmapped"
        /\ core_log'[k].target = n
        /\ core_log'[k].v_after # core_log'[k].v_before

IsRefTick == core # nullptr /\ fire_log # << >> /\ core'.total_cycles_ = core.total_cycles_ + 1

\* the tick just taken is tick number fire_log[n].ticks + 1 after the fire of n
WithinWindow(n, window) ==
    fire_log[n].phase # "none" /\ fire_log[n].ticks + 1 <= window

\* C36: after a neuron of the tile core fired, no input spike changes its
\* v_mem in any of the t_ref clock ticks that follow the tick of the fire,
\* whether it fired while the inbound queue was drained or in the firing pass
\* at the end of the tick.
C36_RefractoryWindowIsTRef ==
    [][IsRefTick =>
          \A n \in DOMAIN fire_log :
              WithinWindow(n, core.t_ref_) => ~InputChanged(n)]_vars

\* after a fire in the end-of-tick pass the window is t_ref ticks
C36_WindowAfterFiringPass ==
    [][IsRefTick =>
          \A n \in DOMAIN fire_log :
              (fire_log[n].phase = "pass" /\ WithinWindow(n, core.t_ref_))
                  => ~InputChanged(n)]_vars

\* after a fire during the drain the window is the rest of that tick and the
\* t_ref - 1 ticks that follow
C36_WindowAfterDrain ==
    [][IsRefTick =>
          \A n \in DOMAIN fire_log :
              (fire_log[n].phase = "drain" /\ WithinWindow(n, core.t_ref_ - 1))
                  => ~InputChanged(n)]_vars

\* a neuron that fired in the pass ignored an input in a later tick of its window
C36_PassWindowUsed ==
    /\ core # nullptr /\ fire_log # << >>
    /\ \E n \in DOMAIN fire_log :
          /\ fire_log[n].phase = "pass"
          /\ fire_log[n].ticks >= 1
          /\ \E k \in 1..Len(core_log) :
                /\ core_log[k].kind = "spike"
                /\ core_log[k].outcome = "refractory"
                /\ core_log[k].target = n

\* a neuron that fired during the drain took an input in tick t_ref after it
C36_DrainWindowShort ==
    /\ core # nullptr /\ fire_log # << >>
    /\ \E n \in DOMAIN fire_log :
          /\ fire_log[n].phase = "drain"
          /\ fire_log[n].ticks = core.t_ref_
          /\ \E k \in 1..Len(core_log) :
                /\ core_log[k].kind = "spike"
                /\ core_log[k].target = n
                /\ core_log[k].outcome = "skip"
                /\ core_log[k].v_after # core_log[k].v_before

\* ---- properties of the tile's drop accounting (PESpec) --------------------------------------
\* the drop statistics of the tile and its NIC: MultiCorePE registers none
\* and SnnNIC registers none; packets_dropped of a SnnNetworkAdapter is the
\* only drop counter there is
DropsCounted ==
    IF external_nic_ # nullptr /\ "packets_dropped" \in DOMAIN external_nic_
    THEN external_nic_.packets_dropped
    ELSE 0

\* spike k, or the copy the tile made of it, was handed to a core
HandedToSomeCore(k) ==
    \E i \in DOMAIN core_spikes : \E j \in DOMAIN core_spikes[i] :
        spike_pool[core_spikes[i][j]] = spike_pool[k]

\* the spikes the tile deleted and handed to no core, neither themselves nor
\* as a copy: expired on arrival, addressed to the tile itself by one of its
\* cores, without a NIC or link to leave on
DroppedByTile == {k \in deleted_spikes : ~HandedToSomeCore(k)}

\* C31: every spike that leaves the tile without being delivered (refused by
\* the ring, not routable, expired, without a route) is counted in a drop
\* statistic, so that the spikes sent equal the spikes received by the cores
\* plus the counted drops plus the spikes in flight.
C31_DroppedSpikesCounted ==
    HasPE => Cardinality(DroppedByTile) = DropsCounted

\* an expired spike arrived on the external link and was deleted
C31_ExpiredSpikeDropped ==
    /\ HasPE
    /\ \E k \in DroppedByTile : k \in pe.expired_in

\* ---- properties of the deliveries of a tile (PESpec) ----------------------------------------
\* the places of the cores' inbound queues: <<core, position>>
CoreSlots == UNION {{<<i, j>> : j \in DOMAIN core_spikes[i]} : i \in DOMAIN core_spikes}

Deliveries(k) == Cardinality({p \in CoreSlots : core_spikes[p[1]][p[2]] = k})

\* the sends so far: the spikes the cores emitted and the spikes that arrived
\* from outside, and the test spikes the tile made itself
SpikesSent ==
    pe.spikes_in + pe.test_spikes_sent_ + (IF pe.test_injected_ THEN 1 ELSE 0)

\* C32: for each send the spike is put into the inbound queue of a core at
\* most once, whichever way it takes (direct, ring, NIC callback, external
\* link): no spike object is in two places of the queues, a spike of which
\* the tile delivered a copy or which it deleted is in none, and the queues
\* hold no more spikes than were sent.
C32_NoDuplicateDelivery ==
    HasPE =>
        /\ \A k \in DOMAIN spike_pool : Deliveries(k) <= 1
        /\ \A k \in deleted_spikes : Deliveries(k) = 0
        /\ Cardinality(CoreSlots) <= SpikesSent

\* one spike was delivered over the ring and one from the queue the NIC's
\* callback fills
C32_Witness ==
    /\ HasPE
    /\ \E i \in DOMAIN recv_log : \E j \in DOMAIN recv_log[i] :
          Deliveries(recv_log[i][j].payload) = 1
    /\ \E k \in pe.from_nic : Deliveries(k) = 1

====
